---- MODULE Spec2Model ----
(***************************************************************************)
(* SMS-Coastal: the MOHID staged-simulation manager.                       *)
(*                                                                         *)
(* The module models sim_manager() of m_sim_manager.py together with the   *)
(* SimOps methods of source/m_sim_operations.py and runsim/chklog of       *)
(* source/m_supp_mohid.py that it calls.                                   *)
(*                                                                         *)
(* Dates are datetimes counted in hours; day number d at 00:00 is 24*d.    *)
(* Day numbers count the days of June 2024, so day 10 is 2024-06-10.       *)
(***************************************************************************)
EXTENDS Integers, Sequences, FiniteSets, TLC

\* ------------------------------------------------------------------------
\* Bounds of the model
\* ------------------------------------------------------------------------

\* longest hindcast / forecast list drawn in the planner slice
MaxLen == 2

\* largest day count of one hindcast / forecast entry
MaxDelta == 2

\* largest number of model domains
MaxDom == 2

\* largest number of continuation archive directories ("continuous")
MaxFinDirs == 2

\* largest number of lines of a captured engine log
MaxLogLines == 2

\* largest number of candidate forcing files behind the first search pattern
MaxFiles == 2

\* largest number of output instants in an engine result file
MaxInst == 4

\* the largest number of entries in an output directory before the run
MaxEntries == 3

\* the day the program runs (datetime.today()), as a day number
Today == 10

VARIABLES
    inpts,      \* contents of initsim.json (self.inpts once chcksim accepts)
    forcfiles,  \* file system: search pattern -> set of candidate forcing files
    globorder,  \* search pattern -> its files in the order glob lists them
    pc,         \* position of sim_manager
    stage,      \* loop variable of sim_manager's stage loop (0-based)
    ini,        \* self.ini: stage start datetimes
    fin,        \* self.fin: stage end datetimes
    chck,       \* return value of chcksim (-1 before the call)
    result,     \* how the invocation ended (the return statement taken)
    gf,         \* locals of the running getforc call
    trace,      \* history of the calls made and the statuses they returned
    smslog,     \* execution log smslog.dat: [isfile, text]
    mails,      \* notifications sent through initmail, in order
    modeldat,   \* Model_<runid>.dat files written by prepsim
    res,        \* per domain: contents of its 'res' directory
    bc,         \* forcing files copied to 'Boundary Conditions', in order
    mohidlog,   \* mohid_stdout.dat: [runid, isfile, lines]
    statushist, \* sim_manager's list of post-processing statuses
    db,         \* database(): its locals, tmp directory and daily directories
    outfs,      \* the output directories 'results', 'fins', 'database' and
                \* 'netcdf' (their entries) and the rmold calls made on them
    nas,        \* cpnas(): its locals, the copies it tried and the copies
                \* on the external disks
    mp,         \* 'Source Code/sim_manager.py': the manager and its restart
                \* and forecast processes
    fp,         \* a run of the forcing processor for one source (amseas or
                \* cmems) and the source's 'database' directory
    mh          \* dev/m_supp_mohid.py: a Mohid object and the runsim calls
                \* made on it

vars == <<inpts, forcfiles, globorder, pc, stage, ini, fin, chck, result, gf, trace,
          smslog, mails, modeldat, res, bc, mohidlog, statushist, db, outfs,
          nas, mp, fp, mh>>

\* ------------------------------------------------------------------------
\* Datetimes
\* ------------------------------------------------------------------------

\* timedelta(n): n days, in hours
Days(n) == 24 * n

\* datetime.date(): the day number of a datetime
DateOf(t) == t \div 24

\* ------------------------------------------------------------------------
\* Configuration values
\* ------------------------------------------------------------------------

\* one hindcast / forecast entry of the JSON file: an int n, or a value that
\* is not an instance of int (a float, a string)
IntEntry(k) == [int |-> TRUE, n |-> k]
NonInt == [int |-> FALSE, n |-> 1]

\* a domain directory as chcksim finds it on disk
OkDom == [isdir |-> TRUE, exe |-> TRUE, data |-> TRUE]

Patterns == {"p1", "p2"}

\* no forcing file: the empty string searchfiles returns
NoFile == [name |-> "", dini |-> 0, dfin |-> 0, mtime |-> 0]

RECURSIVE SumN(_)
SumN(s) == IF s = <<>> THEN 0 ELSE s[1].n + SumN(Tail(s))

Reverse(s) == [i \in 1..Len(s) |-> s[Len(s) + 1 - i]]

\* s[-1]
Last(s) == s[Len(s)]

\* ------------------------------------------------------------------------
\* SimOps.logentry and initmail
\* ------------------------------------------------------------------------

Header == [txt |-> "runtime;simdates;endtime;status\n", day |-> 0]
Now == [txt |-> "<now>;", day |-> 0]
Txt(s) == [txt |-> s, day |-> 0]

\* logentry(entry, addate): the header is written when the file is created
LogEntry(log, entry, addate) ==
    [isfile |-> TRUE,
     text |-> log.text
              \o (IF log.isfile THEN <<>> ELSE <<Header>>)
              \o (IF addate THEN <<Now>> ELSE <<>>)
              \o <<entry>>]

Mail(subject, body) == [subject |-> subject, body |-> body]

Call(op, id, st) == [op |-> op, id |-> id, st |-> st]

\* ------------------------------------------------------------------------
\* SimOps.chcksim
\* ------------------------------------------------------------------------

\* isinstance(deltad, int) and deltad >= 1
ValidDeltaOrZero(d) == d.int /\ d.n >= 0
ValidDelta(d) == d.int /\ d.n >= 1

\* "if not hct and not fct": the null simulation range
NullRange(hct, fct) == hct = <<>> /\ fct = <<>>

\* hct.reverse(): the hindcast entries are consumed newest stage first
HctOrderKeep(hct) == hct
HctOrder(hct) == Reverse(hct)

\* the hindcast loop: opdate - timedelta(sumd), sumd accumulated
HctDates(opdate, rhct) ==
    [i \in 1..Len(rhct) |-> opdate - Days(SumN(SubSeq(rhct, 1, i)))]

\* the forecast loop: opdate + timedelta(sumd), sumd accumulated
FctDatesNoSum(opdate, fct) ==
    [i \in 1..Len(fct) |-> opdate + Days(fct[i].n)]
FctDates(opdate, fct) ==
    [i \in 1..Len(fct) |-> opdate + Days(SumN(SubSeq(fct, 1, i)))]

\* simdates: reversed hindcast dates, opdate, forecast dates
SimDatesTwice(opdate, hct, fct) ==
    Reverse(HctDates(opdate, HctOrder(hct))) \o <<opdate, opdate>>
    \o FctDates(opdate, fct)
SimDates(opdate, hct, fct) ==
    Reverse(HctDates(opdate, HctOrder(hct))) \o <<opdate>>
    \o FctDates(opdate, fct)

\* the domain loop: index of the first domain that fails a check, 0 if none
FirstBadDom(doms) ==
    LET bad == {i \in 1..Len(doms) :
                    \/ ~doms[i].isdir
                    \/ (i = 1 /\ ~doms[i].exe)
                    \/ ~doms[i].data}
    IN  IF bad = {} THEN 0 ELSE CHOOSE i \in bad : \A j \in bad : i <= j

\* the domains whose 'res' directory the domain loop removed and recreated
ClearedDoms(doms) ==
    IF doms = <<>> THEN {}
    ELSE IF FirstBadDom(doms) = 0 THEN 1..Len(doms)
    ELSE 1..(FirstBadDom(doms) - 1)

\* the check of the time steps: one list per domain, one value per stage
BadDts(dts, doms, stages) ==
    \/ dts = <<>>
    \/ Len(dts) # Len(doms)
    \/ \E i \in 1..Len(dts) : Len(dts[i]) # stages

\* chcksim as a function of the input file: its status, the stage lists it
\* leaves in self.ini / self.fin and the domains it cleared
Chcksim(inp) ==
    LET opdate == Days(inp.opdate) + inp.startime
        simdates == SimDates(opdate, inp.hindcast, inp.forecast)
        nostage == [status |-> 1, ini |-> <<>>, fin |-> <<>>, cleared |-> {}]
        planned(st, cl) ==
            [status |-> st,
             ini |-> SubSeq(simdates, 1, Len(simdates) - 1),
             fin |-> SubSeq(simdates, 2, Len(simdates)),
             cleared |-> cl]
    IN  IF ~inp.dirsok THEN nostage
        ELSE IF inp.opdate > Today THEN nostage
        ELSE IF NullRange(inp.hindcast, inp.forecast) THEN nostage
        ELSE IF \E i \in 1..Len(inp.hindcast) : ~ValidDelta(inp.hindcast[i])
            THEN nostage
        ELSE IF \E i \in 1..Len(inp.forecast) : ~ValidDelta(inp.forecast[i])
            THEN nostage
        ELSE IF inp.domains = <<>> THEN planned(1, {})
        ELSE IF FirstBadDom(inp.domains) # 0
            THEN planned(1, ClearedDoms(inp.domains))
        ELSE IF BadDts(inp.domdts, inp.domains, Len(simdates) - 1)
            THEN planned(1, ClearedDoms(inp.domains))
        ELSE planned(0, ClearedDoms(inp.domains))

\* ------------------------------------------------------------------------
\* sim_manager: start and chcksim
\* ------------------------------------------------------------------------

\* the first date range entries chcksim writes to the execution log
RangeEntries(log, r) ==
    LogEntry(LogEntry(log, [txt |-> "%Y%m%d->", day |-> DateOf(r.ini[1])],
                      TRUE),
             [txt |-> "%Y%m%d;", day |-> DateOf(r.fin[Len(r.fin)])], FALSE)

\* sim_manager up to the stage loop: the input file test and chcksim
SimManagerStart ==
    /\ pc = "start"
    /\ stage' = 0
    /\ IF ~inpts.isfile
       THEN /\ pc' = "done"
            /\ result' = "noinit"
            /\ UNCHANGED <<chck, ini, fin, res, smslog>>
       ELSE LET r == Chcksim(inpts)
            IN  /\ chck' = r.status
                /\ ini' = r.ini
                /\ fin' = r.fin
                /\ res' = [d \in DOMAIN res |->
                              IF d \in r.cleared THEN {} ELSE res[d]]
                /\ IF r.status > 0
                   THEN /\ pc' = "done"
                        /\ result' = "chcksim"
                        /\ smslog' = smslog
                   ELSE /\ pc' = "prepsim"
                        /\ result' = result
                        /\ smslog' = RangeEntries(smslog, r)
    /\ UNCHANGED <<inpts, forcfiles, globorder, mh, fp, mp, nas, outfs, gf, trace, mails, modeldat, bc,
                   mohidlog, statushist,
                   db>>

\* ------------------------------------------------------------------------
\* SimOps.prepsim, SimOps.continuous, SimOps.initials
\* ------------------------------------------------------------------------

Pterr == "[ERROR] m_sim_operations:"

\* sim_manager: "if ops.prepsim(runid) > 0: return", else the engine is run
AfterPrepsimAlways(status) == "runsim"
AfterPrepsim(status) == IF status > 0 THEN "done" ELSE "runsim"

\* the domain loop of prepsim stops at the first domain without
\* Nomfich_<runid>.dat (miss, 0 when every domain has the file): the domains
\* it completed before it stopped
Prepared(ndom, miss) == IF miss = 0 THEN 1..ndom ELSE 1..(miss - 1)

\* the Model_<runid>.dat file of one domain
ModelDat(d, runid, start, end, dt) ==
    [dom |-> d, runid |-> runid, START |-> start, END |-> end, DT |-> dt]

\* open(fout, "w") for each Model_<runid>.dat of new
WriteModelDatOnly(files, new) == new
WriteModelDat(files, new) ==
    {m \in files : \A n \in new : ~(m.dom = n.dom /\ m.runid = n.runid)}
    \cup new

\* continuous(runid): nofin[i] is the first domain of which archive
\* directory i holds no FIN files (0 when it holds files of every domain).
\* The archives are tried in order until one serves every domain;
\* itedomains stops at the first domain without files.
\* "if runid > 1: return 0": continuous does nothing after the first stage
SkipContinuousNever(runid) == FALSE
SkipContinuous(runid) == runid > 1

Continuous(runid, nfin, ndom, nofin) ==
    LET okdirs == {i \in 1..nfin : nofin[i] = 0}
        last == IF okdirs = {} THEN nfin
                ELSE CHOOSE i \in okdirs : \A j \in okdirs : i <= j
        upto(i) == IF nofin[i] = 0 THEN ndom ELSE nofin[i] - 1
    IN  IF SkipContinuous(runid) \/ nfin = 0
        THEN [status |-> 0, copies |-> {}]
        ELSE [status |-> IF okdirs = {} THEN 1 ELSE 0,
              copies |-> {c \in (1..ndom) \X (1..last) : c[1] <= upto(c[2])}]

\* the names the FIN files of an archive directory can have in a domain's
\* folder, without the "_<runid>" they end with
FinNames == {{"Hydrodynamic"}, {"Hydrodynamic", "GOTM"}}

\* itefiles: the files <name>_0.fin of domain d's 'res' directory after the
\* copies, names[i] the names of the files of archive directory i; a copy
\* overwrites the file of the same name that an earlier archive directory
\* left
FinFiles(d, copies, names) ==
    LET from == {c[2] : c \in {x \in copies : x[1] = d}}
        last(n) == CHOOSE i \in from :
                      /\ n \in names[i]
                      /\ \A j \in from : n \in names[j] => j <= i
    IN  {[kind |-> "fin", name |-> n, id |-> last(n)] :
            n \in UNION {names[i] : i \in from}}

\* initials(runid): found tells whether the files of the month of the
\* stage's start exist; the method does not look at runid
InitialsAlways(enabled, found) == IF ~found THEN 1 ELSE 0
Initials(enabled, found) ==
    IF ~enabled THEN 0 ELSE IF ~found THEN 1 ELSE 0

NoGf == [alive |-> FALSE, ini |-> 0, fin |-> 0, ipat |-> 0,
         manbreak |-> FALSE, filein |-> NoFile, bound |-> FALSE,
         nsrch |-> 0, fin0 |-> 0, ndec |-> 0, sel |-> <<>>]

\* one call of searchfiles, as getforc's history keeps it: the pattern, the
\* stage window searched and the value returned
Search(pat, sini, sfin, file) ==
    [pat |-> pat, ini |-> sini, fin |-> sfin, file |-> file]

\* Entries of the trace: Call("nomfich", runid, d) is the domain loop of
\* prepsim, d the first domain without Nomfich file (0: none); the other
\* entries carry the status the call returned.

\* the trace entries of the archive copies continuous made, in order
RECURSIVE CopyCalls(_, _, _)
CopyCalls(runid, copies, i) ==
    IF i = 0 THEN <<>>
    ELSE CopyCalls(runid, copies, i - 1)
         \o (IF \E c \in copies : c[2] = i
             THEN <<Call("cpfin", runid, i)>> ELSE <<>>)

\* prepsim(runid) up to the call of getforc
Prepsim ==
    /\ pc = "prepsim"
    /\ LET runid == stage + 1
           ndom == Len(inpts.domains)
       IN  \E miss \in 0..ndom,
              nofin \in [1..(IF SkipContinuous(runid) THEN 0
                                  ELSE inpts.continuous)
                            -> 0..ndom],
              found \in (IF inpts.initials THEN BOOLEAN ELSE {FALSE}),
              names \in [1..(IF SkipContinuous(runid) THEN 0
                                  ELSE inpts.continuous)
                            -> FinNames] :
            LET done == Prepared(ndom, miss)
                cont == Continuous(runid, inpts.continuous, ndom, nofin)
                init == Initials(inpts.initials, found)
                nomf == miss
                fail(why, calls) ==
                    /\ trace' = trace \o calls \o <<Call("prepsim", runid, 1)>>
                    /\ smslog' = LogEntry(smslog, Txt(why \o "\n"), TRUE)
                    /\ mails' = Append(mails, Mail("ERROR", why))
                    /\ result' = why
                    /\ pc' = AfterPrepsim(1)
                c1 == <<Call("nomfich", runid, nomf)>>
                c2 == c1 \o CopyCalls(runid, cont.copies, inpts.continuous)
                         \o <<Call("continuous", runid, cont.status)>>
                c3 == c2 \o (IF init = 0 /\ inpts.initials
                             THEN <<Call("cpinit", runid, 0)>> ELSE <<>>)
                         \o <<Call("initials", runid, init)>>
            IN  /\ modeldat' = WriteModelDat(modeldat,
                        {ModelDat(d, runid, ini[runid], fin[runid],
                                  inpts.domdts[d][runid]) : d \in done})
                /\ IF nomf > 0
                   THEN /\ fail(Pterr \o " nomfich file not found", c1)
                        /\ res' = [d \in DOMAIN res |->
                                IF d \in done
                                THEN res[d] \cup {[kind |-> "Run", id |-> runid]}
                                ELSE res[d]]
                   ELSE /\ res' = [d \in DOMAIN res |->
                                res[d] \cup {[kind |-> "Run", id |-> runid]}
                                \cup FinFiles(d, cont.copies, names)]
                        /\ IF cont.status > 0
                           THEN fail(Pterr \o " FIN files not found", c2)
                           ELSE IF init > 0
                           THEN fail(Pterr \o " inital conditions not found",
                                     c3)
                           ELSE /\ trace' = trace \o c3
                                /\ pc' = "getforc"
                                /\ UNCHANGED <<smslog, mails, result>>
    /\ UNCHANGED <<inpts, forcfiles, globorder, mh, fp, mp, nas, outfs, stage, ini, fin, chck, gf, bc, mohidlog,
                   statushist,
                   db>>

\* ------------------------------------------------------------------------
\* SimOps.getforc
\* ------------------------------------------------------------------------

\* alive: keep searching with a shorter stage, single-stage plans only
AliveAnyPlan(keepalive, nstages) == keepalive
Alive(keepalive, nstages) == keepalive /\ nstages = 1

\* the files of the data frame left by the two date filters
MatchingStrict(files, sini, sfin) ==
    {f \in files : DateOf(sini) >= f.dini /\ DateOf(sfin) < f.dfin}
Matching(files, sini, sfin) ==
    {f \in files : DateOf(sini) >= f.dini /\ DateOf(sfin) <= f.dfin}

\* the files of a listing
Range(s) == {s[i] : i \in 1..Len(s)}

\* the row of file f in the frame built from glob's listing
GlobPos(listing, f) == CHOOSE i \in 1..Len(listing) : listing[i] = f

\* sort_values(by='mdate', ascending=False) and the two filters: the files
\* of the first rows of the frame, those with the newest modification date
\* among the matching ones
NewestOldestFirst(listing, sini, sfin) ==
    LET m == Matching(Range(listing), sini, sfin)
    IN  {f \in m : \A g \in m : f.mtime <= g.mtime}
Newest(listing, sini, sfin) ==
    LET m == Matching(Range(listing), sini, sfin)
    IN  {f \in m : \A g \in m : g.mtime <= f.mtime}

\* searchfiles(prfx): the value it returns, as a set of one element.  The
\* frame is sorted by modification date, newest first, filtered, and the
\* file of its first row returned; the sort of a short frame keeps rows with
\* equal modification dates in the order of glob's listing.
SearchFiles(listing, sini, sfin) ==
    LET n == Newest(listing, sini, sfin)
    IN  IF Matching(Range(listing), sini, sfin) = {} THEN {NoFile}
        ELSE {f \in n : \A g \in n : GlobPos(listing, f) <= GlobPos(listing, g)}

\* "while ini < fin and not manbreak"
LoopCondWithEqual(sini, sfin, manbreak) == sini <= sfin /\ ~manbreak
LoopCond(sini, sfin, manbreak) == sini < sfin /\ ~manbreak

\* "if filein or not alive": the search of this pattern stops
StopSearch(filein, alive) == filein # NoFile \/ ~alive

\* "self.fin = [fin,]": the plan's stage ends after a shrink
SelfFinKept(old, shrunk) == old
SelfFin(old, shrunk) == <<shrunk>>

\* getforc(runid) up to the loop over the search patterns
GetforcStart ==
    /\ pc = "getforc"
    /\ LET runid == stage + 1
       IN  IF inpts.fsrch = <<>>
           THEN /\ trace' = trace \o <<Call("getforc", runid, 0),
                                       Call("prepsim", runid, 0)>>
                /\ pc' = AfterPrepsim(0)
                /\ gf' = gf
           ELSE /\ gf' = [NoGf EXCEPT
                            !.alive = Alive(inpts.keepalive, Len(ini)),
                            !.ini = ini[runid], !.fin = fin[runid],
                            !.fin0 = fin[runid], !.ipat = 1]
                /\ pc' = "getforc_loop"
                /\ trace' = trace
    /\ UNCHANGED <<inpts, forcfiles, globorder, mh, fp, mp, nas, outfs, stage, ini, fin, chck, result, smslog,
                   mails, modeldat, res, bc, mohidlog, statushist,
                   db>>

\* one iteration of the while loop: a search, then a stop or a shrink
GetforcSearch ==
    /\ pc = "getforc_loop"
    /\ LoopCond(gf.ini, gf.fin, gf.manbreak)
    /\ \E f \in SearchFiles(globorder[inpts.fsrch[gf.ipat]], gf.ini, gf.fin) :
          LET s == Search(inpts.fsrch[gf.ipat], gf.ini, gf.fin, f)
          IN
          IF StopSearch(f, gf.alive)
          THEN /\ gf' = [gf EXCEPT !.filein = f, !.bound = TRUE,
                                   !.manbreak = TRUE, !.nsrch = @ + 1,
                                   !.sel = Append(@, s)]
               /\ fin' = fin
          ELSE /\ gf' = [gf EXCEPT !.filein = f, !.bound = TRUE,
                                   !.fin = @ - Days(1), !.nsrch = @ + 1,
                                   !.ndec = @ + 1, !.sel = Append(@, s)]
               /\ fin' = SelfFin(fin, gf.fin - Days(1))
    /\ UNCHANGED <<inpts, forcfiles, globorder, mh, fp, mp, nas, outfs, pc, stage, ini, chck, result, trace,
                   smslog, mails, modeldat, res, bc, mohidlog, statushist,
                   db>>

\* the while loop ended: the pattern failed, or its file is copied and the
\* next pattern starts, or getforc returns
GetforcEndLoop ==
    /\ pc = "getforc_loop"
    /\ ~LoopCond(gf.ini, gf.fin, gf.manbreak)
    /\ LET runid == stage + 1
           err == Pterr \o " forcing data not found"
       IN  IF ~gf.bound
           THEN /\ pc' = "crashed"
                /\ result' = "UnboundLocalError"
                /\ UNCHANGED <<gf, trace, smslog, mails, bc>>
           ELSE IF gf.filein = NoFile
           THEN /\ trace' = trace \o <<Call("getforc", runid, 1),
                                       Call("prepsim", runid, 1)>>
                /\ smslog' = LogEntry(smslog, Txt(err \o "\n"), TRUE)
                /\ mails' = Append(mails, Mail("ERROR", err))
                /\ result' = err
                /\ pc' = AfterPrepsim(1)
                /\ UNCHANGED <<gf, bc>>
           ELSE /\ bc' = Append(bc, [pat |-> inpts.fsrch[gf.ipat],
                                     file |-> gf.filein])
                /\ UNCHANGED <<smslog, mails, result>>
                /\ IF gf.ipat < Len(inpts.fsrch)
                   THEN /\ gf' = [gf EXCEPT !.ipat = @ + 1,
                                            !.manbreak = FALSE, !.nsrch = 0]
                        /\ UNCHANGED <<pc, trace>>
                   ELSE /\ trace' = trace \o <<Call("getforc", runid, 0),
                                               Call("prepsim", runid, 0)>>
                        /\ pc' = AfterPrepsim(0)
                        /\ gf' = gf
    /\ UNCHANGED <<inpts, forcfiles, globorder, mh, fp, mp, nas, outfs, stage, ini, fin, chck, modeldat, res,
                   mohidlog, statushist,
                   db>>

\* ------------------------------------------------------------------------
\* runsim and chklog (m_supp_mohid.py), and the rest of the stage loop
\* ------------------------------------------------------------------------

\* a line of the engine log: whether it contains the word "Program" and
\* whether it contains the phrase "successfully terminated"
LogLines == [program : BOOLEAN, terminated : BOOLEAN]

\* the lines chklog reads of a log: it stops reading at the first line that
\* passes its test, so no line before the last one read holds the phrase
Logs ==
    {l \in UNION {[1..n -> LogLines] : n \in 0..MaxLogLines} :
        \A i \in 1..(Len(l) - 1) : ~l[i].terminated}

\* the test of one line: ("Program" and "successfully terminated") in line.
\* The operand of 'in' is the value of the 'and' of two non-empty strings,
\* which is the second string.
LineOk(line) == line.terminated

\* chklog(flog): 0 when some line passes the test, 1 otherwise
ChklogAlwaysOk(lines) == 0
Chklog(lines) == IF \E i \in 1..Len(lines) : LineOk(lines[i]) THEN 0 ELSE 1

\* sim_manager: "if status < 1: continue"
StageOkAlways(status) == TRUE
StageOk(status) == status < 1

\* "for stage in range(len(ops.ini))": the next value of the loop variable
NextStageSame(s) == s
NextStage(s) == s + 1

\* the engine's outputs of stage runid in the 'res' directory of each domain
EngineOutputs(dirs, runid) ==
    [d \in DOMAIN dirs |-> dirs[d] \cup {[kind |-> "out", id |-> runid]}]

\* runsim("mohid", wkdir) and the error management of the stage loop.
\* mfiles: the engine's files exist; isfile: the shell left a file
\* mohid_stdout.dat; lines: the lines of it that chklog reads
Runsim ==
    /\ pc = "runsim"
    /\ LET runid == stage + 1
           err == "[ERROR] MOHID simulation failed\n"
           after(status, calls) ==
               /\ trace' = trace \o calls \o <<Call("runsim", runid, status)>>
               /\ IF StageOk(status)
                  THEN /\ stage' = NextStage(stage)
                       /\ pc' = IF NextStage(stage) < Len(ini) THEN "prepsim"
                                ELSE "copyouts"
                       /\ UNCHANGED <<smslog, mails, result>>
                  ELSE /\ smslog' = LogEntry(smslog, Txt(err), TRUE)
                       /\ mails' = Append(mails, Mail("ERROR", err))
                       /\ result' = err
                       /\ pc' = "done"
                       /\ stage' = stage
       IN  \E mfiles \in BOOLEAN, isfile \in BOOLEAN :
           \E lines \in (IF mfiles /\ isfile THEN Logs ELSE {<<>>}) :
            IF ~mfiles
            THEN /\ after(1, <<>>)
                 /\ mohidlog' = mohidlog
                 /\ res' = res
            ELSE /\ mohidlog' = [runid |-> runid, isfile |-> isfile,
                                 lines |-> IF isfile THEN lines ELSE <<>>]
                 /\ IF ~isfile
                    THEN /\ pc' = "crashed"
                         /\ result' = "FileNotFoundError"
                         /\ trace' = Append(trace, Call("engine", runid, 0))
                         /\ res' = res
                         /\ UNCHANGED <<stage, smslog, mails>>
                    ELSE /\ after(Chklog(lines), <<Call("engine", runid, 0)>>)
                         /\ res' = EngineOutputs(res, runid)
    /\ UNCHANGED <<inpts, forcfiles, globorder, mh, fp, mp, nas, outfs, ini, fin, chck, gf, modeldat, bc,
                   statushist,
                   db>>

\* ------------------------------------------------------------------------
\* sim_manager after the stage loop
\* ------------------------------------------------------------------------

Completed == Mail("COMPLETED", "by Fernando's awesome Python code")

\* the value of "keepres" when the input file does not set it
NoKeep == -99

\* an entry (file or folder) of an output directory: its name, as the rank
\* of the name in the order of strings, its creation time and whether the
\* name starts with a dot
Entry(n, c, dot) == [name |-> n, ctime |-> c, dot |-> dot]

\* the time of this invocation, later than every creation time before it
NowTime == MaxEntries + 1

\* the name <now>_<ini> of the new folder of 'results', and the name "tmp",
\* which sorts after every dated name
NowName == Today + 2 * MaxDelta * MaxLen + 2
TmpName == NowName + 1

NoOut == [results |-> {}, fins |-> {}, database |-> {}, netcdf |-> {},
          rmolds |-> <<>>]

\* glob(path.join(dirpath, "*")): "*" matches no name that starts with a dot
GlobAll(dir) == {e \in dir : ~e.dot}

\* sorted(vals) and sorted(vals, reverse=True): by name
RECURSIVE SortedForward(_)
SortedForward(S) ==
    IF S = {} THEN <<>>
    ELSE LET m == CHOOSE e \in S : \A f \in S : e.name <= f.name
         IN  <<m>> \o SortedForward(S \ {m})
RECURSIVE SortedReverse(_)
SortedReverse(S) ==
    IF S = {} THEN <<>>
    ELSE LET m == CHOOSE e \in S : \A f \in S : f.name <= e.name
         IN  <<m>> \o SortedReverse(S \ {m})

\* vals[keepres:]
FromKeep(vals, keepres) == {vals[i] : i \in keepres..Len(vals)}
AfterKeep(vals, keepres) == {vals[i] : i \in (keepres + 1)..Len(vals)}

\* rmold(dirpath): the entries of the directory after the call
Rmold(keepres, dir) ==
    IF keepres <= 0 THEN dir
    ELSE dir \ AfterKeep(SortedReverse(GlobAll(dir)), keepres)

\* the output directories after rmold on directory d
DoRmold(o, d) ==
    [o EXCEPT ![d] = Rmold(inpts.keepres, @),
              !.rmolds = Append(@, [dir |-> d, keep |-> inpts.keepres,
                                    before |-> o[d],
                                    after |-> Rmold(inpts.keepres, o[d])])]

\* rmtree of the entry named n when it is there, then makedirs
Remake(dir, n) == {e \in dir : e.name # n} \cup {Entry(n, NowTime, FALSE)}

\* makedirs(outdir, exist_ok=True)
MakeExistOk(dir, n) ==
    IF \E e \in dir : e.name = n THEN dir
    ELSE dir \cup {Entry(n, NowTime, FALSE)}

\* the name of the new folder of 'fins': the end of the last stage, or the
\* day after the start of the first
FinsName ==
    IF inpts.lastfins THEN DateOf(Last(fin)) ELSE DateOf(ini[1] + Days(1))

\* copyouts (with its two rmold calls) and the "postops" branch
Copyouts ==
    /\ pc = "copyouts"
    /\ outfs' = LET o == DoRmold(DoRmold(outfs, "results"), "fins")
                IN  [o EXCEPT !.results = @ \cup {Entry(NowName, NowTime, FALSE)},
                              !.fins = Remake(@, FinsName)]
    /\ trace' = trace \o <<Call("rmold", 0, 0), Call("rmold", 0, 0),
                           Call("copyouts", 0, 0)>>
    /\ IF ~inpts.postops
       THEN /\ smslog' = LogEntry(smslog, Txt("[COMPLETED]\n"), TRUE)
            /\ mails' = Append(mails, Completed)
            /\ result' = "[COMPLETED]"
            /\ pc' = "done"
       ELSE /\ smslog' = LogEntry(smslog, Txt("simulation [COMPLETED]."), TRUE)
            /\ pc' = "database"
            /\ UNCHANGED <<mails, result>>
    /\ UNCHANGED <<inpts, forcfiles, globorder, mh, fp, mp, nas, stage, ini, fin, chck, gf, modeldat, res,
                   bc, mohidlog, statushist,
                   db>>

\* ------------------------------------------------------------------------
\* SimOps.database, with extract and gluehdfs of m_supp_mohid.py
\* ------------------------------------------------------------------------

\* the hours between two output instants of the engine
OutSteps == {8, 12, 16, 36}

\* n instants from t0, s hours apart
Regular(t0, s, n) == [i \in 1..n |-> t0 + s * (i - 1)]

\* the instants of the extracted HD files, sorted by name
HdLists(t0) == {Regular(t0, s, n) : s \in OutSteps, n \in 0..MaxInst}

\* the instants of the extracted WP files for the HD files hd: the same, or
\* without the last one, or with one instant an hour later
WpLists(hd) ==
    {hd}
    \cup (IF hd = <<>> THEN {} ELSE {SubSeq(hd, 1, Len(hd) - 1)})
    \cup {[hd EXCEPT ![m] = @ + 1] : m \in 1..Len(hd)}

DbInput(xhd, xwp, exe, hd, wp, gfail) ==
    [xhd |-> xhd, xwp |-> xwp, exe |-> exe, hd |-> hd, wp |-> wp,
     gfail |-> gfail]

\* what one pass of the domain loop meets: the status of the two
\* extractions, whether Convert2Hdf5.exe exists, the instants of the files
\* extracted and the pair whose merge the tool fails (0: none)
DbInputs(t0) ==
    {DbInput(1, 0, TRUE, <<>>, <<>>, 0), DbInput(0, 1, TRUE, <<>>, <<>>, 0),
     DbInput(0, 0, FALSE, Regular(t0, 12, 2), Regular(t0, 12, 2), 0)}
    \cup {DbInput(0, 0, TRUE, hd, hd, Len(hd)) :
            hd \in {h \in HdLists(t0) : Len(h) >= 2}}
    \cup UNION {{DbInput(0, 0, TRUE, hd, wp, 0) : wp \in WpLists(hd)} :
                    hd \in HdLists(t0)}

\* gluehdfs: "if hddate != wpdate" is the failure of a pair
PairOkAlways(hddate, wpdate) == TRUE
PairOk(hddate, wpdate) == hddate = wpdate

\* gluehdfs(mohidir, iptdir, "HD", "WP", prfxout, False): its status and the
\* instants of the glued files it produced, in order
Gluehdfs(exe, hd, wp, gfail) ==
    LET bad == {i \in 1..Len(hd) : ~PairOk(hd[i], wp[i]) \/ i = gfail}
        stop == IF bad = {} THEN Len(hd) + 1
                ELSE CHOOSE i \in bad : \A j \in bad : i <= j
    IN  IF ~exe THEN [status |-> 1, glued |-> <<>>]
        ELSE IF Len(hd) # Len(wp) THEN [status |-> 1, glued |-> <<>>]
        ELSE IF Len(hd) < 1 THEN [status |-> 1, glued |-> <<>>]
        ELSE [status |-> IF bad = {} THEN 0 ELSE 1,
              glued |-> SubSeq(hd, 1, stop - 1)]

\* the daily directories: one for each day from the start of the last stage
\* while it is before the stage's end
Outdirs(sini, sfin) ==
    [k \in 1..((sfin - sini + 23) \div 24) |-> DateOf(sini + Days(k - 1))]

\* int((24*3600)/step), step the time between the first two glued files
FpdayOne(hdfs) == 1
Fpday(hdfs) == 24 \div (hdfs[2] - hdfs[1])

\* hdfs[iday*fpday:(iday+1)*fpday], iday counted from 0
SliceFromOne(hdfs, iday, fpday) ==
    {hdfs[j] : j \in {i \in 1..Len(hdfs) : i <= (iday + 1) * fpday}}
Slice(hdfs, iday, fpday) ==
    {hdfs[j] : j \in {i \in 1..Len(hdfs) :
                        iday * fpday < i /\ i <= (iday + 1) * fpday}}

\* the domains database works on: without the first one when "level0" is
\* set
DbDomains ==
    IF inpts.level0 THEN [i \in 1..(Len(inpts.domains) - 1) |-> i + 1]
    ELSE [i \in 1..Len(inpts.domains) |-> i]

\* the working directory of the process when sim_manager starts
RootDir == "."

NoDb == [idom |-> 0, status |-> 0, outdirs |-> <<>>, tmp |-> {},
         copies |-> {}, hdfs |-> <<>>, calls |-> <<>>, passes |-> <<>>,
         cwd |-> RootDir]

\* extract returning 1: the working directory it leaves. ran: the tool's
\* files were there and HDF5Extractor.exe was run for an instant, its log
\* without the completion phrase; otherwise a file of the tool is missing
\* and extract returns before chdir(mohidir)
ExtractFailed(curdir, ran) == IF ran THEN "mohid\\extractor" ELSE curdir

\* "while status == 0 and idom < len(domains)"
DbLoopAnyStatus(status, idom, ndom) == idom < ndom
DbLoop(status, idom, ndom) == status = 0 /\ idom < ndom

\* makedirs(outdir, exist_ok=True) for each daily directory
RECURSIVE MakeDirs(_, _)
MakeDirs(dir, names) ==
    IF names = <<>> THEN dir
    ELSE MakeDirs(MakeExistOk(dir, names[1]), Tail(names))

\* database(outdir) up to the domain loop
Database ==
    /\ pc = "database"
    /\ pc' = "database_loop"
    /\ trace' = Append(trace, Call("rmold", 0, 0))
    /\ db' = [NoDb EXCEPT !.outdirs = Outdirs(Last(ini), Last(fin))]
    /\ outfs' = LET o == DoRmold(outfs, "database")
                    dirs == Outdirs(Last(ini), Last(fin))
                IN  [o EXCEPT !.database =
                        {e \in Remake(@, TmpName) : e.name \notin Range(dirs)}]
    /\ UNCHANGED <<inpts, forcfiles, globorder, mh, fp, mp, nas, stage, ini, fin, chck, result,
                   gf, smslog, mails, modeldat, res, bc, mohidlog,
                   statushist>>

\* one pass of the domain loop: the two extractions, gluehdfs and the copy
\* of the glued files to the daily directories
DatabaseDomain ==
    /\ pc = "database_loop"
    /\ DbLoop(db.status, db.idom, Len(DbDomains))
    /\ \E in \in DbInputs(Last(ini)) :
        LET dom == DbDomains[db.idom + 1]
            glue == Gluehdfs(in.exe, in.hd, in.wp, in.gfail)
            call == [dom |-> dom, exe |-> in.exe, hd |-> in.hd, wp |-> in.wp,
                     status |-> glue.status, glued |-> glue.glued]
            files(g) == {[dom |-> dom, t |-> g[i]] : i \in 1..Len(g)}
            hdfs == glue.glued
            pass == [dom |-> dom, in |-> in]
        IN  IF in.xhd > 0 \/ in.xwp > 0
            THEN /\ \E ran \in BOOLEAN :
                        db' = [db EXCEPT !.status = 1,
                                         !.passes = Append(@, pass),
                                         !.cwd = ExtractFailed(@, ran)]
                 /\ UNCHANGED <<pc, result, outfs>>
            ELSE IF glue.status > 0
            THEN /\ db' = [db EXCEPT !.status = 1,
                                     !.passes = Append(@, pass),
                                     !.tmp = @ \cup files(glue.glued),
                                     !.calls = Append(@, call)]
                 /\ UNCHANGED <<pc, result, outfs>>
            ELSE IF Len(hdfs) < 2
            THEN /\ db' = [db EXCEPT !.tmp = @ \cup files(hdfs),
                                     !.passes = Append(@, pass),
                                     !.calls = Append(@, call)]
                 /\ pc' = "crashed"
                 /\ result' = "IndexError"
                 /\ outfs' = outfs
            ELSE /\ db' = [db EXCEPT
                            !.idom = @ + 1,
                            !.passes = Append(@, pass),
                            !.tmp = @ \cup files(hdfs),
                            !.calls = Append(@, call),
                            !.hdfs = Append(@, [dom |-> dom, hdfs |-> hdfs]),
                            !.copies = @ \cup UNION
                                {{[dir |-> k, dom |-> dom, t |-> t] :
                                    t \in Slice(hdfs, k - 1, Fpday(hdfs))} :
                                  k \in 1..Len(db.outdirs)}]
                 /\ outfs' = [outfs EXCEPT !.database =
                                MakeDirs(@, db.outdirs)]
                 /\ UNCHANGED <<pc, result>>
    /\ UNCHANGED <<inpts, forcfiles, globorder, mh, fp, mp, nas, stage, ini, fin, chck, gf, trace,
                   smslog, mails, modeldat, res, bc, mohidlog, statushist>>

\* the end of database: the tmp directory is removed and the daily
\* directories returned, or the failure is logged and mailed and sim_manager
\* returns
DatabaseEnd ==
    /\ pc = "database_loop"
    /\ ~DbLoop(db.status, db.idom, Len(DbDomains))
    /\ LET err == Pterr \o " database pos-processing failed"
       IN  IF db.status < 1
           THEN /\ db' = [db EXCEPT !.tmp = {}]
                /\ outfs' = [outfs EXCEPT !.database =
                                {e \in @ : e.name # TmpName}]
                /\ trace' = Append(trace, Call("database", 0, 0))
                /\ pc' = "hdftonc"
                /\ UNCHANGED <<smslog, mails, result>>
           ELSE /\ db' = db
                /\ outfs' = outfs
                /\ trace' = Append(trace, Call("database", 0, 1))
                /\ smslog' = LogEntry(smslog, Txt(err \o "\n"), FALSE)
                /\ mails' = Append(mails, Mail("ERROR", err))
                /\ result' = err
                /\ pc' = "done"
    /\ UNCHANGED <<inpts, forcfiles, globorder, mh, fp, mp, nas, stage, ini, fin, chck, gf,
                   modeldat, res, bc, mohidlog, statushist>>

\* "if path.isdir(outdir): rmtree(outdir)" and makedirs(outdir) for each
\* directory of names
RECURSIVE Remakes(_, _)
Remakes(dir, names) ==
    IF names = <<>> THEN dir
    ELSE Remakes(Remake(dir, names[1]), Tail(names))

\* hdftonc(outdirs): without the conversion file it returns (0, ()) at once;
\* nfail is the daily directory with the file whose conversion fails
\* (0: none)
Hdftonc ==
    /\ pc = "hdftonc"
    /\ pc' = "thredds"
    /\ UNCHANGED result
    /\ IF ~inpts.convnc
       THEN /\ statushist' = <<0>>
            /\ trace' = Append(trace, Call("hdftonc", 0, 0))
            /\ UNCHANGED <<smslog, mails, outfs>>
       ELSE \E nfail \in {0} \cup {c.dir : c \in db.copies} :
            LET err == Pterr \o " netcdf pos-processing failed"
                o == DoRmold(outfs, "netcdf")
                done == IF nfail = 0 THEN db.outdirs
                        ELSE SubSeq(db.outdirs, 1, nfail)
            IN  IF nfail = 0
                THEN /\ statushist' = <<0>>
                     /\ outfs' = [o EXCEPT !.netcdf = Remakes(@, done)]
                     /\ trace' = trace \o <<Call("rmold", 0, 0),
                                            Call("hdftonc", 0, 0)>>
                     /\ UNCHANGED <<smslog, mails>>
                ELSE /\ statushist' = <<1>>
                     /\ outfs' = [o EXCEPT !.netcdf = Remakes(@, done)]
                     /\ trace' = trace \o <<Call("rmold", 0, 0),
                                            Call("hdftonc", 0, 1)>>
                     /\ smslog' = LogEntry(smslog, Txt(err \o "."), FALSE)
                     /\ mails' = Append(mails, Mail("ERROR", err))
    /\ UNCHANGED <<inpts, forcfiles, globorder, mh, fp, mp, nas, stage, ini, fin, chck, gf, modeldat, res,
                   bc, mohidlog,
                   db>>

\* the thredds conversion module, run when configured and the netCDF
\* conversion returned 0
Thredds ==
    /\ pc = "thredds"
    /\ pc' = "cpnas"
    /\ UNCHANGED result
    /\ IF inpts.thredds /\ statushist[Len(statushist)] < 1
       THEN \E st \in {0, 1} :
            LET err == "[ERROR] thredds covnersion failed."
            IN  /\ statushist' = Append(statushist, st)
                /\ trace' = Append(trace, Call("thredds", 0, st))
                /\ IF st > 0
                   THEN /\ smslog' = LogEntry(smslog, Txt(err), FALSE)
                        /\ mails' = Append(mails, Mail("ERROR", err))
                   ELSE UNCHANGED <<smslog, mails>>
       ELSE UNCHANGED <<statushist, trace, smslog, mails>>
    /\ UNCHANGED <<inpts, forcfiles, globorder, mh, fp, mp, nas, outfs, stage, ini, fin, chck, gf, modeldat, res,
                   bc, mohidlog,
                   db>>

\* "while status == 0 and iday < len(dailydirs)" and
\* "while status == 0 and ihdd < len(hdpaths)"
CpLoopAnyStatus(status, i, n) == i < n
CpLoop(status, i, n) == status = 0 /\ i < n

NoNas == [iday |-> 0, ihdd |-> 0, status |-> 0, tried |-> <<>>,
          copied |-> {}]

\* "if 1 in statushist"
OneLast(hist) == hist[Len(hist)] = 1
OneIn(hist) == \E i \in 1..Len(hist) : hist[i] = 1

\* the end of sim_manager once cpnas has returned st and left the log and
\* the mails as log1 and mail1
SimManagerEnd(st, log1, mail1) ==
    LET hist == Append(statushist, st)
    IN  /\ pc' = "done"
        /\ statushist' = hist
        /\ trace' = Append(trace, Call("cpnas", 0, st))
        /\ IF OneIn(hist)
           THEN /\ smslog' = LogEntry(log1, Txt("\n"), FALSE)
                /\ mails' = mail1
                /\ result' = "post-processing failed"
           ELSE /\ smslog' = LogEntry(log1,
                                Txt("post-processing [COMPLETED]\n"), FALSE)
                /\ mails' = Append(mail1, Completed)
                /\ result' = "[COMPLETED]"

\* cpnas(outdirs) up to its loops: without external disks it returns 0 and
\* sim_manager ends
Cpnas ==
    /\ pc = "cpnas"
    /\ IF inpts.extdisk = 0
       THEN /\ SimManagerEnd(0, smslog, mails)
            /\ nas' = nas
       ELSE /\ pc' = "cpnas_loop"
            /\ nas' = NoNas
            /\ UNCHANGED <<statushist, trace, smslog, mails, result>>
    /\ UNCHANGED <<inpts, forcfiles, globorder, mh, fp, mp, outfs, stage, ini, fin, chck,
                   gf, modeldat, res, bc, mohidlog, db>>

\* one pass of the inner loop: the copy of a daily directory to an external
\* disk, which raises or not
CpnasCopy ==
    /\ pc = "cpnas_loop"
    /\ CpLoop(nas.status, nas.iday, Len(db.outdirs))
    /\ CpLoop(nas.status, nas.ihdd, inpts.extdisk)
    /\ \E ok \in BOOLEAN :
        LET try == [day |-> nas.iday + 1, disk |-> nas.ihdd + 1, ok |-> ok]
            status == IF ok THEN 0 ELSE 1
            ihdd == IF ok THEN nas.ihdd + 1 ELSE nas.ihdd
            inner == CpLoop(status, ihdd, inpts.extdisk)
        IN  nas' = [nas EXCEPT
                        !.status = status,
                        !.tried = Append(@, try),
                        !.copied = IF ok
                                   THEN @ \cup {[day |-> try.day,
                                                 disk |-> try.disk]}
                                   ELSE @,
                        !.ihdd = IF inner THEN ihdd ELSE 0,
                        !.iday = IF inner THEN @ ELSE @ + 1]
    /\ UNCHANGED <<inpts, forcfiles, globorder, mh, fp, mp, outfs, pc, stage, ini, fin,
                   chck, result, gf, trace, smslog, mails, modeldat, res, bc,
                   mohidlog, statushist, db>>

\* the end of cpnas, where a failure is logged and mailed, and the end of
\* sim_manager
CpnasEnd ==
    /\ pc = "cpnas_loop"
    /\ ~CpLoop(nas.status, nas.iday, Len(db.outdirs))
    /\ LET err == Pterr \o " copy to external disk failed"
       IN  IF nas.status < 1
           THEN SimManagerEnd(0, smslog, mails)
           ELSE SimManagerEnd(1, LogEntry(smslog, Txt(err \o "."), FALSE),
                              Append(mails, Mail("ERROR", err)))
    /\ UNCHANGED <<inpts, forcfiles, globorder, mh, fp, mp, outfs, nas, stage, ini, fin,
                   chck, gf, modeldat, res, bc, mohidlog, db>>

Next ==
    \/ SimManagerStart
    \/ Prepsim
    \/ GetforcStart
    \/ GetforcSearch
    \/ GetforcEndLoop
    \/ Runsim
    \/ Copyouts
    \/ Database
    \/ DatabaseDomain
    \/ DatabaseEnd
    \/ Hdftonc
    \/ Thredds
    \/ Cpnas
    \/ CpnasCopy
    \/ CpnasEnd

\* ------------------------------------------------------------------------
\* Initial states: the input file and the file system before sim_manager
\* ------------------------------------------------------------------------

\* sequences over S of length 0..n
SeqsUpTo(S, n) == UNION {[1..k -> S] : k \in 0..n}

\* subsets of S with at most n elements
SubsetsUpTo(S, n) == {T \in SUBSET S : Cardinality(T) <= n}

\* the time step of domain d in stage s, in seconds
Dts(ndom, nstages) == [d \in 1..ndom |-> [s \in 1..nstages |-> 100 * d + s]]

Ints(s) == [i \in 1..Len(s) |-> IntEntry(s[i])]

\* a forcing file named prefix-<dini>_<dfin>.ext with modification time m
Forc(pat, a, b, m) ==
    [name |-> pat, dini |-> a, dfin |-> b, mtime |-> m]

\* a valid single-domain forecast of one day without forcing or
\* post-processing
BaseCfg ==
    [isfile |-> TRUE, dirsok |-> TRUE, opdate |-> Today,
     hindcast |-> <<>>, forecast |-> Ints(<<1>>), startime |-> 0,
     domains |-> <<OkDom>>, domdts |-> Dts(1, 1),
     keepalive |-> FALSE, fsrch |-> <<>>, continuous |-> 0,
     initials |-> FALSE, postops |-> FALSE, thredds |-> FALSE,
     convnc |-> FALSE, extdisk |-> 0, level0 |-> FALSE,
     keepres |-> NoKeep, lastfins |-> TRUE]

NStages(c) == Len(c.hindcast) + Len(c.forecast)

WithDoms(c, ndom) ==
    [c EXCEPT !.domains = [d \in 1..ndom |-> OkDom],
              !.domdts = Dts(ndom, NStages(c))]

\* a forcing file that covers every plan of the model
FullCover(pat) ==
    Forc(pat, Today - 2 * MaxDelta * MaxLen - 1,
         Today + 2 * MaxDelta * MaxLen + 1, 1)

AllCovered == [p \in Patterns |-> {FullCover(p)}]

\* a run with forcing and every post-processing step configured
FullCfg ==
    [BaseCfg EXCEPT !.fsrch = <<"p1">>, !.postops = TRUE, !.thredds = TRUE,
                    !.convnc = TRUE, !.extdisk = 1]

\* plans of zero to four stages, one or more domains
StageCfgs ==
    {WithDoms([BaseCfg EXCEPT !.hindcast = Ints(h), !.forecast = Ints(f)], n) :
        h \in {<<>>, <<1>>, <<2, 1>>}, f \in {<<>>, <<1>>, <<1, 2>>},
        n \in 1..MaxDom}

\* two-stage plans with the preparation sub-steps configured or not
PrepCfgs ==
    {WithDoms([BaseCfg EXCEPT !.hindcast = Ints(<<1>>), !.continuous = c,
                              !.initials = i, !.fsrch = fs, !.keepalive = k],
              n) :
        c \in 0..MaxFinDirs, i \in BOOLEAN,
        fs \in {<<>>, <<"p1">>, <<"p1", "p2">>}, k \in BOOLEAN,
        n \in 1..MaxDom}

\* single-stage runs with the post-processing steps configured or not
PostCfgs ==
    {[BaseCfg EXCEPT !.postops = TRUE, !.thredds = t, !.convnc = c,
                     !.extdisk = e] :
        t \in BOOLEAN, c \in BOOLEAN, e \in 0..1}

\* input files that sim_manager or chcksim turns down at once
BadCfgs ==
    {[BaseCfg EXCEPT !.isfile = FALSE], [BaseCfg EXCEPT !.dirsok = FALSE],
     [BaseCfg EXCEPT !.opdate = Today + 1],
     [BaseCfg EXCEPT !.domains = <<>>],
     [BaseCfg EXCEPT !.domdts = <<>>]}

\* the listings of a set of files: its elements in every order
Perms(S) ==
    {s \in [1..Cardinality(S) -> S] : \A i, j \in DOMAIN s : s[i] = s[j] => i = j}

\* the orders in which glob can list the files of every pattern
Listings(ff) ==
    {g \in [DOMAIN ff -> UNION {Perms(ff[p]) : p \in DOMAIN ff}] :
        \A p \in DOMAIN ff : g[p] \in Perms(ff[p])}

\* one of the listings of every pattern
SomeListing(ff) == CHOOSE g \in Listings(ff) : TRUE

\* 'Source Code/sim_manager.py' not running
NoMp == [pc |-> "off"]

\* the forcing processor not running
NoFp == [pc |-> "off"]

\* no Mohid object
NoMh == [pc |-> "off"]

\* the variables of sim_manager and SimOps
simvars == <<inpts, forcfiles, globorder, pc, stage, ini, fin, chck, result,
             gf, trace, smslog, mails, modeldat, res, bc, mohidlog,
             statushist, db, outfs, nas>>

\* the state before sim_manager is called, for input file c and forcing
\* files ff that glob lists in the orders g
InitSim(c, ff, g, o) ==
    /\ inpts = c
    /\ forcfiles = ff
    /\ globorder = g
    /\ pc = "start"
    /\ stage = 0
    /\ ini = <<>>
    /\ fin = <<>>
    /\ chck = -1
    /\ result = ""
    /\ gf = NoGf
    /\ trace = <<>>
    /\ smslog \in {[isfile |-> b, text |-> <<>>] : b \in BOOLEAN}
    /\ mails = <<>>
    /\ modeldat = {}
    /\ res = [d \in 1..Len(c.domains) |-> {[kind |-> "old", id |-> 0]}]
    /\ bc = <<>>
    /\ mohidlog = [runid |-> 0, isfile |-> FALSE, lines |-> <<>>]
    /\ statushist = <<>>
    /\ db = NoDb
    /\ outfs = o
    /\ nas = NoNas

\* the same, with 'Source Code/sim_manager.py' out of the picture
InitOn(c, ff, g, o) ==
    InitSim(c, ff, g, o) /\ mp = NoMp /\ fp = NoFp /\ mh = NoMh

\* the same with empty output directories
InitAt(c, ff, g) == InitOn(c, ff, g, NoOut)

InitWith(c, ff) == InitAt(c, ff, SomeListing(ff))

\* the pipeline over plans, preparation and post-processing settings
Init ==
    \E c \in {FullCfg} \cup StageCfgs \cup PrepCfgs \cup PostCfgs \cup BadCfgs,
       ff \in {AllCovered, [AllCovered EXCEPT !["p1"] = {}],
               [AllCovered EXCEPT !["p2"] = {}]} :
        InitWith(c, ff)

Spec == Init /\ [][Next]_vars

\* --- the stage planner over every short hindcast / forecast list ---------

\* list entries: no day, one day, the longest stage, not an integer
Entries == {IntEntry(0), IntEntry(1), IntEntry(MaxDelta), NonInt}

PlanCfgs ==
    {[BaseCfg EXCEPT !.hindcast = h, !.forecast = f, !.startime = st,
                     !.domdts = Dts(1, Len(h) + Len(f))] :
        h \in SeqsUpTo(Entries, MaxLen), f \in SeqsUpTo(Entries, MaxLen),
        st \in {0, 12}}
    \cup
    {[BaseCfg EXCEPT !.hindcast = Ints(h), !.forecast = Ints(f),
                     !.opdate = od,
                     !.domdts = Dts(1, Len(h) + Len(f) + more)] :
        h \in {<<>>, <<1>>}, f \in {<<>>, <<1>>, <<2, 1>>},
        od \in {Today, Today + 1}, more \in {0, 1}}

\* opdate 2024-06-10 with hindcast [2, 3] and forecast [1]
ScenarioCfg ==
    [BaseCfg EXCEPT !.opdate = 10, !.hindcast = Ints(<<2, 3>>),
                    !.forecast = Ints(<<1>>), !.domdts = Dts(1, 3)]

InitPlan ==
    \E c \in {FullCfg, ScenarioCfg} \cup PlanCfgs : InitWith(c, AllCovered)

SpecPlan == InitPlan /\ [][Next]_vars

\* --- the forcing search over sets of candidate files ---------------------

\* candidates of pattern p1: they start before or after the operation date
\* and end on it or up to MaxDelta days later
Cands1 ==
    {Forc("p1", a, b, 1) :
        a \in {Today - 1, Today + 1}, b \in Today..(Today + MaxDelta)}

Cands2 == {Forc("p2", Today - 1, b, 1) : b \in Today..(Today + MaxDelta)}

ForcCfgs ==
    {[BaseCfg EXCEPT !.hindcast = Ints(h), !.forecast = Ints(f),
                     !.domdts = Dts(1, Len(h) + Len(f)),
                     !.keepalive = k, !.fsrch = fs, !.startime = st] :
        h \in {<<>>}, f \in {<<d>> : d \in 1..MaxDelta}, k \in BOOLEAN,
        fs \in {<<"p1">>, <<"p1", "p2">>}, st \in {0, 12}}
    \cup
    {[BaseCfg EXCEPT !.hindcast = Ints(<<1>>), !.forecast = Ints(<<1>>),
                     !.domdts = Dts(1, 2), !.keepalive = k, !.fsrch = fs] :
        k \in BOOLEAN, fs \in {<<"p1">>, <<"p1", "p2">>}}

\* candidates of pattern p1 that differ in modification time: they end on
\* the operation date or MaxDelta days later
CandsM ==
    {Forc("p1", Today - 1, b, m) : b \in {Today, Today + MaxDelta}, m \in 1..3}

\* single-stage forecasts that search pattern p1
MtimeCfgs ==
    {[BaseCfg EXCEPT !.forecast = Ints(<<d>>), !.keepalive = k,
                     !.fsrch = <<"p1">>] :
        d \in 1..MaxDelta, k \in BOOLEAN}

InitForc ==
    \/ InitWith(FullCfg, AllCovered)
    \/ \E c \in ForcCfgs, s1 \in SubsetsUpTo(Cands1, MaxFiles),
          s2 \in SubsetsUpTo(Cands2, 1) :
        InitWith(c, [p \in Patterns |-> IF p = "p1" THEN s1 ELSE s2])
    \/ \E c \in MtimeCfgs, s1 \in SubsetsUpTo(CandsM, MaxFiles + 1) :
        \E g \in Listings([p \in Patterns |-> IF p = "p1" THEN s1 ELSE {}]) :
            InitAt(c, [p \in Patterns |-> IF p = "p1" THEN s1 ELSE {}], g)

SpecForc == InitForc /\ [][Next]_vars

\* --- the database step over last stages of one or more days -------------

\* forecasts of one stage with post-processing, one or two domains, with
\* and without the tide-only first level
DbCfgs ==
    {WithDoms([BaseCfg EXCEPT !.forecast = Ints(<<d>>), !.postops = TRUE,
                              !.level0 = l, !.extdisk = 2], n) :
        d \in 1..MaxDelta, l \in BOOLEAN, n \in 1..2}

InitData ==
    \E c \in {FullCfg, [FullCfg EXCEPT !.startime = 12]} \cup DbCfgs :
        InitWith(c, AllCovered)

SpecData == InitData /\ [][Next]_vars

\* --- the retention of old outputs over directory contents ---------------

\* the dated names an output directory holds before the run
DirNames == (Today - 1)..(Today + 1)

\* the contents of an output directory before the run: up to MaxEntries
\* entries with distinct dated names, created one after the other in any
\* order, and possibly one entry whose name starts with a dot
Contents ==
    LET named(N) == {c \in [N -> 1..Cardinality(N)] :
                        \A n, m \in N : c[n] = c[m] => n = m}
        plain == UNION {{ {Entry(n, c[n], FALSE) : n \in N} : c \in named(N)} :
                        N \in SubsetsUpTo(DirNames, MaxEntries)}
    IN  plain \cup {D \cup {Entry(Today - 2, 1, TRUE)} : D \in plain}

\* the values of "keepres": not set, zero, and one to MaxEntries
KeepVals == {NoKeep} \cup 0..MaxEntries

KeepCfgs ==
    {[FullCfg EXCEPT !.keepres = k] : k \in KeepVals}
    \cup {[FullCfg EXCEPT !.keepres = 1, !.lastfins = FALSE]}

InitKeep ==
    \E c \in KeepCfgs, D \in Contents :
        InitOn(c, AllCovered, SomeListing(AllCovered),
               [NoOut EXCEPT !.results = D, !.fins = D, !.database = D,
                             !.netcdf = D])

SpecKeep == InitKeep /\ [][Next]_vars

\* ------------------------------------------------------------------------
\* 'Source Code/sim_manager.py': the manager that runs the restart and the
\* forecast pipelines as two processes
\* ------------------------------------------------------------------------

\* the latest time of the clock, and the steps in which time passes (seconds)
MaxClock == 60
Ticks == {10, 20}

\* sleep(30)
StartupDelay == 30

\* inpts.pop("rstday", 7)
NoRstday == 7

\* self.levels: the number of model levels, each with its fin files
MaxLevels == 2
Levels == 1..MaxLevels

\* a dated directory of Operations\FINS: whether it is there, and the levels
\* whose fin files it holds
NoDir == [is |-> FALSE, files |-> {}]
EmptyDir == [is |-> TRUE, files |-> {}]
FullDir == [is |-> TRUE, files |-> Levels]

\* the time before which the manager does not return from sleep
WakeAtOnce(t) == t
Wake(t) == t + StartupDelay

\* SimOp(inpts, "Restart") and SimOp(inpts, "Forecast"): self.root
RootAlwaysForecast(p) == "Forecast"
RootOf(p) == IF p = "rst" THEN "Restart" ELSE "Forecast"

Step(op, dirs, mayend) == [op |-> op, dirs |-> dirs, mayend |-> mayend]

\* the steps of sim_restart and of sim_forecast in order: the directories
\* of the SMS-Coastal folder a step writes in, and whether the pipeline may
\* return at that step
StepsOf(p) ==
    LET root == RootOf(p)
    IN  IF p = "rst"
        THEN <<Step("environment", {root}, FALSE),
               Step("range", {root}, TRUE),
               Step("checkinitials", {root}, FALSE),
               Step("forcing", {root}, TRUE),
               Step("runsim", {root}, TRUE),
               Step("save", {root}, FALSE)>>
        ELSE <<Step("environment", {root}, FALSE),
               Step("range", {root}, TRUE),
               Step("checkfins", {root}, TRUE),
               Step("checkinitials", {root}, FALSE),
               Step("forcing", {root}, TRUE),
               Step("runsim", {root}, TRUE),
               Step("save", {root}, FALSE),
               Step("outmerger", {root, "MOHID\\Merger"}, TRUE),
               Step("extract_outputs", {root, "MOHID\\Extractor"}, TRUE),
               Step("special", {root, "MOHID\\Merger", "MOHID\\NetCDF"},
                    FALSE)>>

NewProc == [st |-> "new", at |-> 0]

\* the manager called with the treated inputs of init.dat
MpStart(optype, rstday, weekday, skipforc) ==
    [pc |-> "start", optype |-> optype, rstday |-> rstday,
     weekday |-> weekday, skipforc |-> skipforc, clock |-> 0, wake |-> 0,
     rst |-> NewProc, fct |-> NewProc, events |-> <<>>, writes |-> {},
     old |-> FALSE, fins |-> [Restart |-> NoDir, Forecast |-> NoDir],
     sv |-> [pc |-> "start", level |-> 0],
     ck |-> [pc |-> "start", dir |-> "none", level |-> 0, got |-> {}]]

Event(ev, t) == [ev |-> ev, t |-> t]

\* the forcing layer, run by the manager itself before any process
MgrForcing ==
    /\ mp.pc = "start"
    /\ mp' = [mp EXCEPT
                !.pc = "alloc",
                !.writes = IF mp.skipforc = "0"
                           THEN @ \cup {[proc |-> "mgr", dir |-> "FORC"]}
                           ELSE @]
    /\ UNCHANGED <<simvars, fp, mh>>

\* "if rstday == opdate.weekday() or optype == '4': prst.start(); sleep(30)"
MgrStartRestart ==
    /\ mp.pc = "alloc"
    /\ IF mp.rstday = mp.weekday \/ mp.optype = "4"
       THEN mp' = [mp EXCEPT !.pc = "sleep",
                             !.wake = Wake(mp.clock),
                             !.rst = [st |-> "run", at |-> 0],
                             !.events = Append(@, Event("prst.start",
                                                        mp.clock))]
       ELSE mp' = [mp EXCEPT !.pc = "startfct"]
    /\ UNCHANGED <<simvars, fp, mh>>

\* the return from sleep
MgrWake ==
    /\ mp.pc = "sleep"
    /\ mp.clock >= mp.wake
    /\ mp' = [mp EXCEPT !.pc = "startfct"]
    /\ UNCHANGED <<simvars, fp, mh>>

\* "if optype in ('1', '3'): pfct.start()"
MgrStartForecast ==
    /\ mp.pc = "startfct"
    /\ IF mp.optype \in {"1", "3"}
       THEN mp' = [mp EXCEPT !.pc = "join",
                             !.fct = [st |-> "run", at |-> 0],
                             !.events = Append(@, Event("pfct.start",
                                                        mp.clock))]
       ELSE mp' = [mp EXCEPT !.pc = "join"]
    /\ UNCHANGED <<simvars, fp, mh>>

\* "for pro in (pfct, prst): if pro.is_alive(): pro.join()"
MgrJoin ==
    /\ mp.pc = "join"
    /\ mp.rst.st # "run"
    /\ mp.fct.st # "run"
    /\ mp' = [mp EXCEPT !.pc = "done"]
    /\ UNCHANGED <<simvars, fp, mh>>

\* the process p is running and its next step is op
AtStep(p, op) ==
    /\ mp.pc \notin {"off", "start"}
    /\ mp[p].st = "run"
    /\ StepsOf(p)[mp[p].at + 1].op = op

\* checkfins, "finsdir = ...Restart\Operations\FINS\%y%m%d; if not
\* path.isdir(finsdir): finsdir = finsdir.replace('Restart', 'Forecast')":
\* the directory of the operation date the forecast reads, "none" when
\* neither is there (ERR01, the forecast returns)
FinsdirOf(fins) ==
    IF fins.Restart.is THEN "Restart"
    ELSE IF fins.Forecast.is THEN "Forecast" ELSE "none"

CheckfinsDir ==
    /\ AtStep("fct", "checkfins")
    /\ mp.ck.pc = "start"
    /\ LET dir == FinsdirOf(mp.fins)
       IN  mp' = [mp EXCEPT !.ck.dir = dir,
                            !.ck.pc = IF dir = "none" THEN "missing"
                                      ELSE "copy"]
    /\ UNCHANGED <<simvars, fp, mh>>

\* checkfins, one turn of "for level in range(self.levels)": the files
\* that glob finds in finsdir for the level are copied to the level's res
CheckfinsLevel ==
    /\ AtStep("fct", "checkfins")
    /\ mp.ck.pc = "copy"
    /\ LET l == mp.ck.level + 1
           found == IF l \in mp.fins[mp.ck.dir].files THEN {l} ELSE {}
       IN  mp' = [mp EXCEPT !.ck.level = l,
                            !.ck.got = @ \cup found,
                            !.ck.pc = IF l = MaxLevels THEN "done"
                                      ELSE "copy"]
    /\ UNCHANGED <<simvars, fp, mh>>

\* sim_restart, the interface stage: "if dtday <= 2 and optype == '1'",
\* after which runfin is later than the operation date
Interface(m) == m.optype = "1" /\ ~m.old

\* the restart's savefins(1), "findate = self.runfin": whether it writes
\* the directory of the operation date
SavesOpdate(m) == ~Interface(m)

\* savefins, redefinedir: "if path.isdir(folder): rmtree(folder)"
SavefinsRemove ==
    /\ AtStep("rst", "save")
    /\ mp.sv.pc = "start"
    /\ mp' = [mp EXCEPT !.sv.pc = "removed",
                        !.fins.Restart = IF SavesOpdate(mp) THEN NoDir
                                         ELSE @]
    /\ UNCHANGED <<simvars, fp, mh>>

\* savefins, redefinedir: "mkdir(folder)"
SavefinsMkdir ==
    /\ AtStep("rst", "save")
    /\ mp.sv.pc = "removed"
    /\ mp' = [mp EXCEPT !.sv.pc = "copy",
                        !.fins.Restart = IF SavesOpdate(mp) THEN EmptyDir
                                         ELSE @]
    /\ UNCHANGED <<simvars, fp, mh>>

\* savefins, one turn of "for level in range(self.levels)": the fin files
\* of the level are copied to the directory
SavefinsLevel ==
    /\ AtStep("rst", "save")
    /\ mp.sv.pc = "copy"
    /\ LET l == mp.sv.level + 1
       IN  mp' = [mp EXCEPT !.sv.level = l,
                            !.sv.pc = IF l = MaxLevels THEN "done"
                                      ELSE "copy",
                            !.fins.Restart.files =
                                IF SavesOpdate(mp) THEN @ \cup {l} ELSE @]
    /\ UNCHANGED <<simvars, fp, mh>>

\* one step of the process p, after which the pipeline goes on or returns;
\* the forecast leaves checkfins when it has copied all levels or found no
\* directory, the restart leaves its save step (saveres) after savefins
ProcStep(p) ==
    /\ mp.pc \notin {"off", "start"}
    /\ mp[p].st = "run"
    /\ AtStep(p, "checkfins") => mp.ck.pc \in {"missing", "done"}
    /\ AtStep("rst", "save") /\ p = "rst" => mp.sv.pc = "done"
    /\ LET step == StepsOf(p)[mp[p].at + 1]
           last == mp[p].at + 1 = Len(StepsOf(p))
       IN  \E end \in (IF last THEN {TRUE}
                        ELSE IF step.op = "checkfins"
                             THEN {mp.ck.pc = "missing"}
                        ELSE IF step.mayend THEN BOOLEAN ELSE {FALSE}) :
            mp' = [mp EXCEPT
                    ![p] = [st |-> IF end THEN "end" ELSE "run",
                            at |-> mp[p].at + 1],
                    !.writes = @ \cup {[proc |-> p, dir |-> d] :
                                        d \in IF end /\ ~last THEN {RootOf(p)}
                                               ELSE step.dirs}]
    /\ UNCHANGED <<simvars, fp, mh>>

RstStep == ProcStep("rst")

FctStep == ProcStep("fct")

\* time passes
Tick ==
    /\ mp.pc \notin {"off", "done"}
    /\ mp.clock < MaxClock
    /\ \E d \in Ticks : mp' = [mp EXCEPT !.clock = @ + d]
    /\ UNCHANGED <<simvars, fp, mh>>

NextMp ==
    \/ MgrForcing
    \/ MgrStartRestart
    \/ MgrWake
    \/ MgrStartForecast
    \/ MgrJoin
    \/ RstStep
    \/ FctStep
    \/ CheckfinsDir
    \/ CheckfinsLevel
    \/ SavefinsRemove
    \/ SavefinsMkdir
    \/ SavefinsLevel
    \/ Tick

\* the operation types that reach the manager, the restart day (read for
\* operation type 1 only) and the day of the week of the operation date
MpInputs ==
    {MpStart("1", r, w, k) : r \in {0, 1}, w \in {0, 1}, k \in {"0", "1"}}
    \cup {MpStart(o, NoRstday, w, k) :
            o \in {"3", "4"}, w \in {0, 1}, k \in {"0", "1"}}

\* the directories of the operation date left by earlier runs
FinsArchives == [Restart : {NoDir, FullDir}, Forecast : {NoDir, FullDir}]

\* with them, whether the operation date is more than two days old, and
\* what the FINS archives hold for it
MpCfgs ==
    {[c EXCEPT !.old = o, !.fins = f] :
        c \in MpInputs, o \in BOOLEAN, f \in FinsArchives}

InitMp ==
    /\ InitSim(BaseCfg, AllCovered, SomeListing(AllCovered), NoOut)
    /\ mp \in MpCfgs
    /\ fp = NoFp
    /\ mh = NoMh

SpecMp == InitMp /\ [][NextMp]_vars

\* ------------------------------------------------------------------------
\* The forcing processor: amseas and cmems with ForcOps
\* ------------------------------------------------------------------------

\* an entry of the source's 'database' directory, dated d (a folder %y%m%d
\* of amseas, a file cmems-<time>.nc of cmems), written before the run or
\* in it
Dated(d, made) == [name |-> d, made |-> made]

\* "if path.isdir(iptdir)": the folder of the day is in the database
InDatabaseNever(dir, d) == FALSE
InDatabase(dir, d) == \E e \in dir : e.name = d

\* the entry dated d written in the run, over the one that was there
Written(dir, d) == {e \in dir : e.name # d} \cup {Dated(d, "run")}

\* a run for the dates d0..d1 with "keepold" keep and ndisk external disks
FpStart(src, d0, d1, keep, ndisk, dir) ==
    [pc |-> "start", src |-> src, d0 |-> d0, d1 |-> d1, keepold |-> keep,
     ndisk |-> ndisk, ctrl |-> d0, status |-> 0, database |-> dir,
     start |-> dir, precp |-> {}, cpnas |-> -1, saved |-> FALSE,
     copied |-> {}]

\* waitdata and chkroot
FpChkroot ==
    /\ fp.pc = "start"
    /\ \E ok \in BOOLEAN :
        fp' = [fp EXCEPT !.pc = IF ~ok THEN "done"
                               ELSE IF fp.src = "amseas" THEN "amseas_loop"
                               ELSE "cmems_download",
                         !.status = IF ok THEN 0 ELSE 1]
    /\ UNCHANGED <<simvars, mp, mh>>

\* "while status == 0 and ctrldate <= drange[1]"
AmseasLoop == fp.status = 0 /\ fp.ctrl <= fp.d1

\* one pass of the download loop of amseas: the day's folder is taken from
\* the database, or downloaded and, when the day is not after today, copied
\* to the database
AmseasDay ==
    /\ fp.pc = "amseas_loop"
    /\ AmseasLoop
    /\ IF InDatabase(fp.database, fp.ctrl)
       THEN fp' = [fp EXCEPT !.ctrl = @ + 1]
       ELSE \E ok \in BOOLEAN :
            IF ~ok
            THEN fp' = [fp EXCEPT !.status = 1]
            ELSE fp' = [fp EXCEPT
                            !.ctrl = @ + 1,
                            !.database = IF fp.ctrl <= Today
                                         THEN Written(@, fp.ctrl) ELSE @]
    /\ UNCHANGED <<simvars, mp, mh>>

\* after the loop: a failed download ends the run
AmseasEnd ==
    /\ fp.pc = "amseas_loop"
    /\ ~AmseasLoop
    /\ fp' = [fp EXCEPT !.pc = IF fp.status > 0 THEN "done" ELSE "cpnas"]
    /\ UNCHANGED <<simvars, mp, mh>>

\* "if path.isfile(folder)": a plain file of the directory, here one whose
\* name sorts before the names of the daily folders
PlainFile == [name |-> 0, made |-> "before", file |-> TRUE]
IsFile(e) == "file" \in DOMAIN e

\* the copies of cpnas in order: plain files are passed over, every other
\* entry is copied to each external disk in turn
RECURSIVE CopyJobs(_, _)
CopyJobs(folders, ndisk) ==
    IF folders = <<>> THEN <<>>
    ELSE (IF IsFile(Head(folders)) THEN <<>>
          ELSE [k \in 1..ndisk |-> [name |-> Head(folders).name, disk |-> k]])
         \o CopyJobs(Tail(folders), ndisk)

\* "if status < 1: for folder in folders: unlink or rmtree": the directory
\* when cpnas returns
CleanedAlways(dir, sel, status) == dir \ sel
Cleaned(dir, sel, status) == IF status < 1 THEN dir \ sel ELSE dir

\* ForcOps.cpnas(database) and the end of amseas: failat is the copy to an
\* external disk that raises, 0 when none does
FpCpnas ==
    /\ fp.pc = "cpnas"
    /\ LET folders == SortedReverse(fp.database)
           sel == IF fp.keepold < 0 THEN {} ELSE AfterKeep(folders, fp.keepold)
           jobs == IF fp.keepold < 0 THEN <<>>
                   ELSE CopyJobs(SubSeq(folders, fp.keepold + 1, Len(folders)),
                                 fp.ndisk)
       IN  \E failat \in 0..Len(jobs) :
            LET status == IF failat > 0 THEN 1 ELSE 0
                made == IF failat > 0 THEN failat - 1 ELSE Len(jobs)
            IN  fp' = [fp EXCEPT
                        !.pc = "done",
                        !.precp = fp.database,
                        !.cpnas = status,
                        !.status = status,
                        !.copied = {jobs[i] : i \in 1..made},
                        !.database = Cleaned(@, sel, status)]
    /\ UNCHANGED <<simvars, mp, mh>>

\* cmems: the credentials and the downloads
CmemsDownload ==
    /\ fp.pc = "cmems_download"
    /\ \E ok \in BOOLEAN :
        fp' = [fp EXCEPT !.pc = IF ok THEN "cmems_save" ELSE "done",
                         !.status = IF ok THEN 0 ELSE 1]
    /\ UNCHANGED <<simvars, mp, mh>>

\* the instants of a set of days written to the database, one after the
\* other
RECURSIVE WrittenAll(_, _)
WrittenAll(dir, days) ==
    IF days = {} THEN dir
    ELSE LET d == CHOOSE x \in days : TRUE
         IN  WrittenAll(Written(dir, d), days \ {d})

\* cmems: every downloaded instant is saved as cmems-<time>.nc in the
\* database, then the conversions run
CmemsSave ==
    /\ fp.pc = "cmems_save"
    /\ \E st \in {0, 1} :
        fp' = [fp EXCEPT !.pc = "done",
                         !.saved = TRUE,
                         !.status = st,
                         !.database = WrittenAll(@, fp.d0..fp.d1)]
    /\ UNCHANGED <<simvars, mp, mh>>

NextFp ==
    \/ FpChkroot
    \/ AmseasDay
    \/ AmseasEnd
    \/ FpCpnas
    \/ CmemsDownload
    \/ CmemsSave

\* the database before the run: any of the folders of the last days
FpDirs ==
    {{Dated(d, "before") : d \in D} \cup F :
        D \in SUBSET ((Today - 2)..Today), F \in {{}, {PlainFile}}}

\* the largest number of external disks
MaxDisks == 2

\* runs for yesterday to tomorrow; "keepold" not set, or 0 to MaxEntries
FpCfgs ==
    {FpStart(src, Today - 1, Today + 1, k, n, dir) :
        src \in {"amseas", "cmems"}, k \in KeepVals, n \in 0..MaxDisks,
        dir \in FpDirs}

InitFp ==
    /\ InitSim(BaseCfg, AllCovered, SomeListing(AllCovered), NoOut)
    /\ mp = NoMp
    /\ fp \in FpCfgs
    /\ mh = NoMh

SpecFp == InitFp /\ [][NextFp]_vars

\* ------------------------------------------------------------------------
\* dev/m_supp_mohid.py: the Mohid class
\* ------------------------------------------------------------------------

\* largest number of runsim calls on one Mohid object
MaxCalls == 3

\* what a runsim call meets: match, the first domain's exe folder is the
\* working directory; prep, every domain has its Nomfich.dat and a
\* Model_<runid>.dat with the START and END keywords; exe, MOHIDWater.exe
\* is in the executable directory; islog, the engine's output file exists
\* after the run; phrase, it holds a line with the completion phrase.
\* A call meets no fault or one.
MhInput(fault) ==
    [match |-> fault # "match", prep |-> fault # "prep",
     exe |-> fault # "exe", islog |-> fault # "islog",
     phrase |-> fault # "phrase"]

MhInputs ==
    {MhInput(f) : f \in {"none", "match", "prep", "exe", "islog", "phrase"}}

\* chklog: "self.goterror = found" after the file was found
GoterrorNotFound(found) == ~found
Goterror(found) == found

\* Mohid.runsim on an object whose goterror is g, called from the directory
\* cwd: the goterror and the working directory it leaves, and whether the
\* engine was run
MhRunsimOf(g, cwd, in) ==
    IF ~in.match THEN [goterror |-> TRUE, cwd |-> cwd, engine |-> FALSE]
    ELSE IF g \/ ~in.prep
    THEN [goterror |-> TRUE, cwd |-> cwd, engine |-> FALSE]
    ELSE IF ~in.exe THEN [goterror |-> TRUE, cwd |-> "wkdir", engine |-> FALSE]
    ELSE IF ~in.islog THEN [goterror |-> TRUE, cwd |-> cwd, engine |-> TRUE]
    ELSE [goterror |-> Goterror(in.phrase), cwd |-> cwd, engine |-> TRUE]

\* mohid = Mohid(mexe, wkdir)
NewMohid == [pc |-> "calls", goterror |-> FALSE, cwd |-> RootDir,
             calls |-> <<>>]

\* a runsim call on the object
MhRunsim ==
    /\ mh.pc = "calls"
    /\ Len(mh.calls) < MaxCalls
    /\ \E in \in MhInputs :
        LET r == MhRunsimOf(mh.goterror, mh.cwd, in)
        IN  mh' = [mh EXCEPT
                    !.goterror = r.goterror,
                    !.cwd = r.cwd,
                    !.calls = Append(@, [in |-> in, engine |-> r.engine,
                                         goterror |-> r.goterror])]
    /\ UNCHANGED <<simvars, mp, fp>>

\* the example's loop: "if mohid.goterror: break"
MhBreak ==
    /\ mh.pc = "calls"
    /\ mh.goterror
    /\ mh' = [mh EXCEPT !.pc = "done"]
    /\ UNCHANGED <<simvars, mp, fp>>

NextMh == MhRunsim \/ MhBreak

InitMh ==
    /\ InitSim(BaseCfg, AllCovered, SomeListing(AllCovered), NoOut)
    /\ mp = NoMp
    /\ fp = NoFp
    /\ mh = NewMohid

SpecMh == InitMh /\ [][NextMh]_vars

\* ------------------------------------------------------------------------
\* Properties of the stage planner (chcksim)
\* ------------------------------------------------------------------------

\* the state in which chcksim has just accepted the input file
AfterChcksim == chck = 0 /\ pc = "prepsim" /\ trace = <<>>

\* opdate with the start-time offset applied
OpdateTime == Days(inpts.opdate) + inpts.startime

\* C1: the stage list chcksim builds for an accepted input file has
\* ini[i] < fin[i] for every stage, fin[i] = ini[i+1] for consecutive stages,
\* starts at opdate - sum(hindcast) days and ends at opdate + sum(forecast)
\* days, opdate including the start-time offset.
C1_StagesContiguous ==
    AfterChcksim =>
        /\ Len(ini) = Len(fin)
        /\ \A i \in 1..Len(ini) : ini[i] < fin[i]
        /\ \A i \in 1..(Len(ini) - 1) : fin[i] = ini[i + 1]
        /\ ini[1] = OpdateTime - Days(SumN(inpts.hindcast))
        /\ fin[Len(fin)] = OpdateTime + Days(SumN(inpts.forecast))

C1_Witness ==
    /\ AfterChcksim
    /\ Len(inpts.hindcast) = 2
    /\ Len(inpts.forecast) = 2
    /\ inpts.forecast[1].n # inpts.forecast[2].n
    /\ inpts.startime > 0

\* C2: chcksim builds len(hindcast) + len(forecast) stages for every input
\* file it accepts, and an input file with both lists empty is rejected with
\* the error status and no stage list.
C2_StageCount ==
    /\ chck = 0 =>
        /\ Len(ini) = Len(inpts.hindcast) + Len(inpts.forecast)
        /\ Len(fin) = Len(inpts.hindcast) + Len(inpts.forecast)
    /\ (chck # -1 /\ inpts.hindcast = <<>> /\ inpts.forecast = <<>>) =>
        /\ chck = 1
        /\ pc = "done"
        /\ ini = <<>>
        /\ fin = <<>>

C2_Witness ==
    /\ chck = 0
    /\ Len(inpts.hindcast) = 1
    /\ Len(inpts.forecast) = 2
    /\ Len(ini) = 3

\* C3: stage i lasts hindcast[i] days and stage len(hindcast)+j lasts
\* forecast[j] days; opdate 2024-06-10 with hindcast [2, 3] and forecast [1]
\* gives the stages (06-05, 06-07), (06-07, 06-10), (06-10, 06-11).
C3_StageDurations ==
    AfterChcksim =>
        /\ \A i \in 1..Len(inpts.hindcast) :
              fin[i] - ini[i] = Days(inpts.hindcast[i].n)
        /\ \A j \in 1..Len(inpts.forecast) :
              fin[Len(inpts.hindcast) + j] - ini[Len(inpts.hindcast) + j]
                  = Days(inpts.forecast[j].n)
        /\ (inpts.opdate = 10 /\ inpts.startime = 0
            /\ inpts.hindcast = Ints(<<2, 3>>) /\ inpts.forecast = Ints(<<1>>))
           => /\ ini = <<Days(5), Days(7), Days(10)>>
              /\ fin = <<Days(7), Days(10), Days(11)>>

C3_Witness ==
    /\ AfterChcksim
    /\ inpts.opdate = 10
    /\ inpts.hindcast = Ints(<<2, 3>>)
    /\ inpts.forecast = Ints(<<1>>)
    /\ ini = <<120, 168, 240>>

\* ------------------------------------------------------------------------
\* Properties of the stage loop of sim_manager
\* ------------------------------------------------------------------------

HasCall(c) == \E i \in 1..Len(trace) : trace[i] = c

\* the calls that prepare or run a stage
StageOps == {"nomfich", "cpfin", "continuous", "cpinit", "initials",
             "getforc", "prepsim", "engine", "runsim"}

\* the post-run steps of sim_manager
PostOps == {"copyouts", "rmold", "database", "hdftonc", "thredds", "cpnas"}

\* the captured log holds the phrase "successfully terminated"
HasPhrase(lines) == \E i \in 1..Len(lines) : lines[i].terminated

EngineError == "[ERROR] MOHID simulation failed\n"

\* C4: when the log captured for stage k lacks the completion phrase, runsim
\* returns the failure status, sim_manager writes the failure to the
\* execution log, notifies and returns, and no stage after k is prepared or
\* run.
C4_NoPhraseStops ==
    (mohidlog.runid >= 1 /\ mohidlog.isfile /\ ~HasPhrase(mohidlog.lines)) =>
        /\ pc = "done"
        /\ Last(trace) = Call("runsim", mohidlog.runid, 1)
        /\ Last(smslog.text) = Txt(EngineError)
        /\ Last(mails) = Mail("ERROR", EngineError)
        /\ \A i \in 1..Len(trace) :
              trace[i].op \in StageOps => trace[i].id <= mohidlog.runid

C4_Witness ==
    /\ mohidlog.runid = 1
    /\ mohidlog.isfile
    /\ Len(mohidlog.lines) = MaxLogLines
    /\ ~HasPhrase(mohidlog.lines)
    /\ mohidlog.lines[1].program
    /\ Len(ini) = 3
    /\ pc = "done"

\* the sub-steps of prepsim whose failure ends the preparation
SubSteps == {"nomfich", "continuous", "initials", "getforc"}

\* C5: the engine is invoked for a stage only after the Nomfich test of
\* every domain and the continuation, initial-conditions and forcing
\* sub-steps of that stage returned success; a failing sub-step is the last
\* one run, prepsim returns the failure and sim_manager returns without
\* invoking the engine for that stage.
C5_EngineOnlyWhenPrepared ==
    /\ \A i \in 1..Len(trace) :
          trace[i].op = "engine" =>
              \A op \in SubSteps :
                  \E j \in 1..(i - 1) : trace[j] = Call(op, trace[i].id, 0)
    /\ \A i \in 1..Len(trace) :
          (trace[i].op \in SubSteps /\ trace[i].st > 0) =>
              /\ i + 1 = Len(trace)
              /\ trace[i + 1] = Call("prepsim", trace[i].id, 1)
              /\ pc = "done"
    /\ \A i \in 1..Len(trace) :
          (trace[i].op = "nomfich" /\ trace[i].st > 0) =>
              \A m \in modeldat :
                  m.runid = trace[i].id => m.dom < trace[i].st

C5_Witness ==
    /\ HasCall(Call("engine", 1, 0))
    /\ HasCall(Call("nomfich", 2, MaxDom))
    /\ inpts.continuous > 0
    /\ inpts.initials
    /\ Len(inpts.fsrch) = 2
    /\ Len(inpts.domains) = MaxDom

\* C6: the engine is invoked at most once per stage and in increasing stage
\* order, no stage is prepared twice, and stage k+1 is prepared only after
\* the engine run of stage k was classified successful.
C6_StagesSequential ==
    /\ \A i, j \in 1..Len(trace) :
          (i < j /\ trace[i].op = "engine" /\ trace[j].op = "engine")
              => trace[i].id < trace[j].id
    /\ \A i, j \in 1..Len(trace) :
          (i < j /\ trace[i].op = "nomfich" /\ trace[j].op = "nomfich")
              => trace[i].id < trace[j].id
    /\ \A i \in 1..Len(trace) :
          (trace[i].op = "nomfich" /\ trace[i].id > 1) =>
              \E j \in 1..(i - 1) : trace[j] = Call("runsim", trace[i].id - 1, 0)
    /\ \A i \in 1..Len(trace) :
          trace[i].op = "engine" =>
              \E j \in 1..(i - 1) : trace[j] = Call("prepsim", trace[i].id, 0)

C6_Witness ==
    /\ HasCall(Call("engine", 4, 0))
    /\ HasCall(Call("runsim", 3, 0))
    /\ pc = "done"

\* C7: after a stage failure, in preparation or in the engine run, no
\* post-run step is executed: copyouts, rmold, database, hdftonc, the thredds
\* conversion and cpnas are all skipped.
C7_NoPostAfterFailure ==
    (\E i \in 1..Len(trace) :
        trace[i].op \in {"prepsim", "runsim"} /\ trace[i].st > 0) =>
        /\ pc = "done"
        /\ \A j \in 1..Len(trace) : trace[j].op \notin PostOps

C7_Witness ==
    /\ HasCall(Call("runsim", 1, 0))
    /\ HasCall(Call("prepsim", 2, 1))
    /\ pc = "done"

\* C13, as claimed: whenever the engine is invoked for a stage, the
\* Model_<runid>.dat of every domain holds the stage's start, the stage's
\* current end in the plan (the shrunk end when the keep-alive loop shrank
\* it) and the domain's time step for the stage.
C13_AsClaimed ==
    \A i \in 1..Len(trace) :
        trace[i].op = "engine" =>
            \A d \in 1..Len(inpts.domains) :
                ModelDat(d, trace[i].id, ini[trace[i].id], fin[trace[i].id],
                         inpts.domdts[d][trace[i].id]) \in modeldat

\* the invocation ended on a fatal condition: chcksim turned the input file
\* down, the preparation or the engine run of a stage failed, or a
\* post-processing step or the copy to the external disk failed
Fatal ==
    /\ pc = "done"
    /\ \/ chck = 1
       \/ \E i \in 1..Len(trace) :
             /\ trace[i].op \in {"prepsim", "runsim", "database", "hdftonc",
                                 "thredds", "cpnas"}
             /\ trace[i].st > 0

\* the execution log holds the text of an error mail that was sent
LoggedAndNotified ==
    \E i \in 1..Len(mails) :
        /\ mails[i].subject = "ERROR"
        /\ \E j \in 1..Len(smslog.text) :
              smslog.text[j].txt \in {mails[i].body, mails[i].body \o "\n",
                                      mails[i].body \o "."}

\* C14, as claimed: every fatal condition that ends a sim_manager
\* invocation has written an entry to the execution log and sent a
\* notification before sim_manager returns.
C14_AsClaimed == Fatal => LoggedAndNotified

\* C15, as claimed: when the engine's log file is absent after the engine
\* call, runsim returns the failure status and sim_manager writes the
\* failure to the execution log, notifies and returns.
C15_AsClaimed ==
    (mohidlog.runid >= 1 /\ ~mohidlog.isfile) =>
        /\ pc = "done"
        /\ Last(trace) = Call("runsim", mohidlog.runid, 1)
        /\ Last(smslog.text) = Txt(EngineError)
        /\ Last(mails) = Mail("ERROR", EngineError)

\* a hindcast or forecast entry is not an integer >= 1
InvalidEntry(e) == ~e.int \/ e.n < 1

\* C16: when some hindcast or forecast entry is not an integer >= 1,
\* chcksim returns the error status and sim_manager returns at once: no
\* stage is prepared, the engine is not invoked and no output is copied.
C16_InvalidEntryRejected ==
    (/\ chck # -1
     /\ \/ \E i \in 1..Len(inpts.hindcast) : InvalidEntry(inpts.hindcast[i])
        \/ \E i \in 1..Len(inpts.forecast) : InvalidEntry(inpts.forecast[i]))
    => /\ chck = 1
       /\ pc = "done"
       /\ trace = <<>>
       /\ modeldat = {}
       /\ bc = <<>>
       /\ \A d \in DOMAIN res : res[d] = {[kind |-> "old", id |-> 0]}

C16_Witness ==
    /\ chck = 1
    /\ pc = "done"
    /\ Len(inpts.hindcast) = 2
    /\ \A i \in 1..2 : ~InvalidEntry(inpts.hindcast[i])
    /\ Len(inpts.forecast) = 2
    /\ ~InvalidEntry(inpts.forecast[1])
    /\ inpts.forecast[2] = IntEntry(0)

\* C17, as claimed: continuation files and initial-condition files are
\* copied only while the first stage is prepared.
C17_AsClaimed ==
    \A i \in 1..Len(trace) :
        trace[i].op \in {"cpfin", "cpinit"} => trace[i].id = 1

\* C17, amended: continuation files are copied only while the first stage
\* is prepared; initial-condition files are copied while every stage is
\* prepared whose continuation step did not fail, when the initials policy
\* is set and files of the month of the stage's start exist.
C17_CopiesPerStage ==
    /\ \A i \in 1..Len(trace) : trace[i].op = "cpfin" => trace[i].id = 1
    /\ \A i \in 1..Len(trace) :
          (trace[i].op = "continuous" /\ trace[i].id > 1) =>
              /\ trace[i].st = 0
              /\ trace[i - 1].op = "nomfich"
    /\ \A i \in 1..Len(trace) :
          (trace[i] = Call("initials", trace[i].id, 0) /\ inpts.initials) =>
              trace[i - 1] = Call("cpinit", trace[i].id, 0)

C17_Witness ==
    /\ inpts.continuous > 0
    /\ inpts.initials
    /\ HasCall(Call("cpfin", 1, 1))
    /\ HasCall(Call("cpinit", 1, 0))
    /\ HasCall(Call("continuous", 2, 0))
    /\ HasCall(Call("cpinit", 2, 0))

\* C18, as claimed: the continuation copy and the initial-conditions copy
\* are alternatives: initial-condition files are copied only when the plan
\* is not continuous and the initials policy is set.
C18_AsClaimed ==
    \A i \in 1..Len(trace) :
        trace[i].op = "cpinit" => (inpts.continuous = 0 /\ inpts.initials)

\* C18, amended: the two copies are independent: initial-condition files
\* are copied only when the initials policy is set, whether or not the plan
\* is continuous, and after a continuation copy that succeeded the
\* initial-conditions step still runs; without the initials policy the step
\* returns success and copies nothing.
C18_CopiesIndependent ==
    /\ \A i \in 1..Len(trace) : trace[i].op = "cpinit" => inpts.initials
    /\ \A i \in 1..Len(trace) :
          trace[i].op = "continuous" /\ trace[i].st = 0 /\ i < Len(trace)
              => trace[i + 1].op \in {"cpinit", "initials"}
    /\ \A i \in 1..Len(trace) :
          (trace[i].op = "initials" /\ ~inpts.initials) =>
              /\ trace[i].st = 0
              /\ trace[i - 1].op = "continuous"

C18_Witness ==
    /\ inpts.continuous = MaxFinDirs
    /\ inpts.initials
    /\ \E i \in 1..Len(trace) :
          /\ trace[i] = Call("cpfin", 1, MaxFinDirs)
          /\ trace[i + 1] = Call("continuous", 1, 0)
          /\ trace[i + 2] = Call("cpinit", 1, 0)
          /\ trace[i + 3] = Call("initials", 1, 0)

\* ------------------------------------------------------------------------
\* Properties of the database step
\* ------------------------------------------------------------------------

\* the glued files of domain d copied to the k-th daily directory
Copied(d, k) == {c \in db.copies : c.dom = d /\ c.dir = k}

\* 86400 / step, step the seconds between the first two glued files,
\* as a whole number of files
FilesPerDay(h) == 86400 \div (3600 * (h[2] - h[1]))

\* C19, as claimed: for every domain, each daily directory but the last
\* receives exactly files_per_day glued files, and the last one at most
\* that many.
C19_AsClaimed ==
    \A i \in 1..Len(db.hdfs) :
        LET e == db.hdfs[i]
            f == FilesPerDay(e.hdfs)
            D == Len(db.outdirs)
        IN  /\ \A k \in 1..(D - 1) : Cardinality(Copied(e.dom, k)) = f
            /\ Cardinality(Copied(e.dom, D)) <= f

\* C19, amended: with f = int(86400 / step), the k-th daily directory
\* receives the glued files number (k-1)*f+1 .. k*f of the domain's sorted
\* list, as far as the list goes: exactly f files while the list holds at
\* least k*f files, the remaining fewer files in the directory where the
\* list runs out, none in the directories after it, and the files beyond
\* number (number of directories)*f are not copied; a domain with a single
\* glued file makes database raise IndexError.
C19_Buckets ==
    /\ \A i \in 1..Len(db.hdfs) :
          LET e == db.hdfs[i]
              f == FilesPerDay(e.hdfs)
              N == Len(e.hdfs)
          IN  \A k \in 1..Len(db.outdirs) :
                /\ \A j \in 1..N :
                      [dir |-> k, dom |-> e.dom, t |-> e.hdfs[j]] \in db.copies
                          <=> ((k - 1) * f < j /\ j <= k * f)
                /\ N >= k * f => Cardinality(Copied(e.dom, k)) = f
                /\ (N < k * f /\ N >= (k - 1) * f)
                      => Cardinality(Copied(e.dom, k)) = N - (k - 1) * f
                /\ N < (k - 1) * f => Copied(e.dom, k) = {}
    /\ \A c \in db.copies : \E i \in 1..Len(db.hdfs) : db.hdfs[i].dom = c.dom
    /\ (db.calls # <<>> /\ Last(db.calls).status = 0
          /\ Len(Last(db.calls).glued) = 1) => pc = "crashed"

\* two domains over two daily directories, two files a day: the first
\* domain fills both directories, the second leaves one file for the last
C19_Witness ==
    /\ Len(db.outdirs) = 2
    /\ Len(db.hdfs) = 2
    /\ FilesPerDay(db.hdfs[1].hdfs) = 2
    /\ FilesPerDay(db.hdfs[2].hdfs) = 2
    /\ Len(db.hdfs[1].hdfs) = 4
    /\ Len(db.hdfs[2].hdfs) = 3
    /\ Cardinality(Copied(1, 2)) = 2
    /\ Cardinality(Copied(2, 2)) = 1

\* the daily directories the glued file of instant t of domain d was
\* copied to
DirsOf(d, t) == {c.dir : c \in {x \in db.copies : x.dom = d /\ x.t = t}}

\* database returned the daily directories
DatabaseDone == \E i \in 1..Len(trace) : trace[i] = Call("database", 0, 0)

\* C30 as stated: after a successful database run every glued file of
\* every processed domain is in exactly one daily directory.
C30_AsClaimed ==
    DatabaseDone =>
        \A i \in 1..Len(db.hdfs) :
            \A j \in 1..Len(db.hdfs[i].hdfs) :
                Cardinality(DirsOf(db.hdfs[i].dom, db.hdfs[i].hdfs[j])) = 1

\* C30 as amended: after a successful database run no glued file is in two
\* daily directories; with f files a day and D daily directories the first
\* D*f glued files of a domain are each in exactly one directory and the
\* files after them in none.
C30_AtMostOnce ==
    DatabaseDone =>
        \A i \in 1..Len(db.hdfs) :
            LET e == db.hdfs[i]
                f == FilesPerDay(e.hdfs)
            IN  \A j \in 1..Len(e.hdfs) :
                    Cardinality(DirsOf(e.dom, e.hdfs[j])) =
                        IF j <= Len(db.outdirs) * f THEN 1 ELSE 0

\* one daily directory and two files a day: a domain with three glued
\* files has its first two in the directory and the third left out
C30_Witness ==
    /\ DatabaseDone
    /\ Len(db.outdirs) = 1
    /\ \E i \in 1..Len(db.hdfs) :
          LET e == db.hdfs[i]
          IN  /\ Len(e.hdfs) = 3
              /\ FilesPerDay(e.hdfs) = 2
              /\ DirsOf(e.dom, e.hdfs[1]) = {1}
              /\ DirsOf(e.dom, e.hdfs[2]) = {1}
              /\ DirsOf(e.dom, e.hdfs[3]) = {}

\* C20: gluehdfs merges the i-th hydrodynamic file with the i-th property
\* file only when their instants are identical; unequal numbers of files
\* or a mismatch in some pair make it return failure, and no glued file is
\* produced for the first mismatched pair or any pair after it.
C20_GluePairs ==
    \A i \in 1..Len(db.calls) :
        LET c == db.calls[i]
            mism == {k \in 1..Len(c.hd) : k <= Len(c.wp) /\ c.hd[k] # c.wp[k]}
        IN  /\ Len(c.glued) <= Len(c.hd)
            /\ \A k \in 1..Len(c.glued) :
                  /\ k <= Len(c.wp)
                  /\ c.glued[k] = c.hd[k]
                  /\ c.hd[k] = c.wp[k]
            /\ Len(c.hd) # Len(c.wp) => (c.status = 1 /\ c.glued = <<>>)
            /\ (Len(c.hd) = Len(c.wp) /\ mism # {}) =>
                  /\ c.status = 1
                  /\ \A k \in mism : Len(c.glued) < k

\* a call with MaxInst pairs whose third pair does not match: two glued
\* files and the failure status, which database reports
C20_Witness ==
    /\ db.calls # <<>>
    /\ Len(Last(db.calls).hd) = MaxInst
    /\ Len(Last(db.calls).wp) = MaxInst
    /\ Last(db.calls).hd[3] # Last(db.calls).wp[3]
    /\ Len(Last(db.calls).glued) = 2
    /\ Last(db.calls).status = 1
    /\ HasCall(Call("database", 0, 1))

\* a pass of the domain loop in which an extraction or the gluing failed:
\* a non-zero extraction status, no merge tool, no HD file, HD and WP files
\* that differ in number or in instant, or a merge the tool failed
PassFailed(p) ==
    \/ p.in.xhd > 0
    \/ p.in.xwp > 0
    \/ ~p.in.exe
    \/ Len(p.in.hd) = 0
    \/ Len(p.in.hd) # Len(p.in.wp)
    \/ \E i \in DOMAIN p.in.hd \cap DOMAIN p.in.wp : p.in.hd[i] # p.in.wp[i]
    \/ p.in.gfail \in DOMAIN p.in.hd

ConversionOps == {"hdftonc", "thredds", "cpnas"}

\* C21: when extraction or gluing fails for a domain, database works on no
\* further domain and returns the empty result (logged as a failure), and
\* sim_manager runs no netCDF conversion, no thredds conversion and no
\* external copy.
C21_FailureIsFatal ==
    \A i \in 1..Len(db.passes) :
        PassFailed(db.passes[i]) =>
            /\ i = Len(db.passes)
            /\ pc \in {"database_loop", "done"}
            /\ statushist = <<>>
            /\ \A j \in 1..Len(trace) : trace[j].op \notin ConversionOps
            /\ pc = "done" => /\ HasCall(Call("database", 0, 1))
                              /\ ~HasCall(Call("database", 0, 0))

\* the first of two domains fails in the gluing and sim_manager has returned
C21_Witness ==
    /\ pc = "done"
    /\ Len(DbDomains) = 2
    /\ Len(db.passes) = 1
    /\ db.passes[1].in.xhd = 0
    /\ db.passes[1].in.xwp = 0
    /\ PassFailed(db.passes[1])

\* ------------------------------------------------------------------------
\* Properties of the retention of old outputs (rmold)
\* ------------------------------------------------------------------------

Min(a, b) == IF a <= b THEN a ELSE b

RmoldCalls == {outfs.rmolds[i] : i \in 1..Len(outfs.rmolds)}

\* the entries whose names do not start with a dot
Plain(dir) == {e \in dir : e.dot = FALSE}

\* C22 as stated: a call with keep_n > 0 leaves exactly
\* min(keep_n, existing_count) entries, a call with keep_n <= 0 removes
\* nothing, whatever the directory held.
C22_AsClaimed ==
    \A r \in RmoldCalls :
        IF r.keep > 0
        THEN /\ r.after \subseteq r.before
             /\ Cardinality(r.after) = Min(r.keep, Cardinality(r.before))
        ELSE r.after = r.before

\* C22 as amended: the count is over the entries whose names do not start
\* with a dot; the entries whose names start with a dot all stay.
C22_KeepsCount ==
    \A r \in RmoldCalls :
        IF r.keep > 0
        THEN /\ r.after \subseteq r.before
             /\ Cardinality(Plain(r.after))
                    = Min(r.keep, Cardinality(Plain(r.before)))
             /\ r.before \ Plain(r.before) \subseteq r.after
        ELSE r.after = r.before

\* a call that removes one of three entries and leaves the dot entry
C22_Witness ==
    \E r \in RmoldCalls :
        /\ r.keep = 2
        /\ Cardinality(Plain(r.before)) = 3
        /\ Cardinality(r.before) = 4
        /\ Cardinality(r.after) = 3

\* the k most recently created entries of a directory (every choice of
\* them, when creation times tie)
NewestCreated(dir, k) ==
    {S \in SUBSET dir :
        /\ Cardinality(S) = Min(k, Cardinality(dir))
        /\ \A e \in S, f \in dir \ S : e.ctime >= f.ctime}

\* C23 as stated: with keep_n > 0 the surviving entries are the keep_n most
\* recently created ones (here for the directories without an entry whose
\* name starts with a dot).
C23_AsClaimed ==
    \A r \in RmoldCalls :
        r.keep > 0 /\ Plain(r.before) = r.before =>
            r.after \in NewestCreated(r.before, r.keep)

\* C23 as amended: the entries whose names do not start with a dot are
\* ordered by name, greatest first; the first keep_n of them survive and
\* every other one is deleted.
C23_KeepsGreatestNames ==
    \A r \in RmoldCalls :
        r.keep > 0 =>
            /\ Cardinality(Plain(r.after))
                    = Min(r.keep, Cardinality(Plain(r.before)))
            /\ \A e \in Plain(r.after), f \in Plain(r.before) \ r.after :
                    e.name > f.name
            /\ r.after \subseteq r.before

\* a call that deletes the entry created last, because its name is the
\* smallest
C23_Witness ==
    \E r \in RmoldCalls :
        /\ r.keep = 2
        /\ Cardinality(Plain(r.before)) = 3
        /\ \E f \in Plain(r.before) \ r.after :
                \A e \in r.after : f.ctime > e.ctime /\ f.name < e.name

\* ------------------------------------------------------------------------
\* Properties of the copy to the external disks (cpnas)
\* ------------------------------------------------------------------------

CopyError == Pterr \o " copy to external disk failed"

\* how many entries of the log, or mails, satisfy P
Count(seq, P(_)) == Cardinality({i \in 1..Len(seq) : P(seq[i])})

IsCopyLog(e) == e.txt = CopyError \o "."
IsCopyMail(m) == m = Mail("ERROR", CopyError)

\* C24: the first failed copy is the last copy cpnas tries (no further
\* destination, no retry); cpnas then returns 1 with one log entry and one
\* notification; the copies completed before it stay on the disks.
C24_FirstFailureFails ==
    /\ \A i \in 1..Len(nas.tried) :
        /\ ~nas.tried[i].ok => i = Len(nas.tried)
        /\ \A j \in 1..Len(nas.tried) :
            (nas.tried[i].day = nas.tried[j].day
                /\ nas.tried[i].disk = nas.tried[j].disk) => i = j
    /\ nas.copied = {[day |-> nas.tried[i].day, disk |-> nas.tried[i].disk] :
                        i \in {j \in 1..Len(nas.tried) : nas.tried[j].ok}}
    /\ (pc = "done" /\ \E i \in 1..Len(nas.tried) : ~nas.tried[i].ok) =>
        /\ HasCall(Call("cpnas", 0, 1))
        /\ ~HasCall(Call("cpnas", 0, 0))
        /\ Count(smslog.text, IsCopyLog) = 1
        /\ Count(mails, IsCopyMail) = 1
        /\ result = "post-processing failed"

\* with two days and two disks, the third copy fails after two completed
\* ones and sim_manager has returned
C24_Witness ==
    /\ pc = "done"
    /\ inpts.extdisk = 2
    /\ Len(db.outdirs) = 2
    /\ Len(nas.tried) = 3
    /\ ~nas.tried[3].ok
    /\ Cardinality(nas.copied) = 2

\* ------------------------------------------------------------------------
\* Properties of the restart and forecast processes
\* ------------------------------------------------------------------------

\* the restart pipeline and the forecast pipeline both apply
BothApply ==
    /\ mp.pc # "off"
    /\ (mp.rstday = mp.weekday \/ mp.optype = "4")
    /\ mp.optype \in {"1", "3"}

EventsAt(ev) == {i \in 1..Len(mp.events) : mp.events[i].ev = ev}

\* C25: when both pipelines apply, the forecast process is started only
\* after the restart process, and not before the startup delay of 30
\* seconds has passed since.
C25_RestartFirst ==
    BothApply =>
        \A j \in EventsAt("pfct.start") :
            \E i \in EventsAt("prst.start") :
                /\ i < j
                /\ mp.events[j].t >= mp.events[i].t + 30

\* both processes were started and have ended
C25_Witness ==
    /\ BothApply
    /\ mp.pc = "done"
    /\ EventsAt("prst.start") = {1}
    /\ EventsAt("pfct.start") = {2}
    /\ mp.rst.at = 6
    /\ mp.fct.at = 10

\* the directories of the SMS-Coastal folder the process p wrote in
WrittenBy(p) ==
    IF mp.pc = "off" THEN {} ELSE {w.dir : w \in {x \in mp.writes : x.proc = p}}

\* C26 as stated: each pipeline writes only under its own root.
C26_AsClaimed ==
    /\ WrittenBy("rst") \subseteq {"Restart"}
    /\ WrittenBy("fct") \subseteq {"Forecast"}

\* C26 as amended: no directory is written by both pipelines; the restart
\* pipeline writes only under Restart, the forecast pipeline under Forecast
\* and in the directories of the MOHID tools it runs.
C26_NoSharedWrites ==
    /\ WrittenBy("rst") \cap WrittenBy("fct") = {}
    /\ WrittenBy("rst") \subseteq {"Restart"}
    /\ WrittenBy("fct") \subseteq
            {"Forecast", "MOHID\\Merger", "MOHID\\Extractor", "MOHID\\NetCDF"}

\* both processes are running, the restart one past its first steps and the
\* forecast one past the merge of its outputs
C26_Witness ==
    /\ mp.pc = "join"
    /\ mp.rst.st = "run"
    /\ mp.fct.st = "run"
    /\ mp.rst.at >= 2
    /\ mp.fct.at >= 8
    /\ "MOHID\\Merger" \in WrittenBy("fct")

\* the forecast has gone on from checkfins with what it copied from the
\* directory of the operation date in the restart archive
WentOnFromRestartFins ==
    /\ mp.pc # "off"
    /\ mp.ck.dir = "Restart"
    /\ mp.ck.pc = "done"
    /\ mp.fct.at >= 3

\* C38: when the restart and the forecast pipelines run concurrently for
\* the same operation date, the forecast's read of the restart archive of
\* that date (checkfins) never interleaves with the restart's rewrite of
\* the directory (savefins): the forecast never goes on with an incomplete
\* set of fin files.
C38_AsClaimed ==
    (BothApply /\ WentOnFromRestartFins) => mp.ck.got = 1..MaxLevels

\* ------------------------------------------------------------------------
\* Properties of the forcing database (amseas, cmems, ForcOps.cpnas)
\* ------------------------------------------------------------------------

\* the entries of the database at the start of the run that are not in it
\* any more
Removed ==
    IF fp.pc = "off" THEN {}
    ELSE {e \in fp.start : \A f \in fp.database : f.name # e.name}

\* the entries of the database at the start of the run written again in it
Rewritten ==
    IF fp.pc = "off" THEN {}
    ELSE {e \in fp.start : [name |-> e.name, made |-> "run"] \in fp.database}

\* the entries of dir with fewer than k entries of greater name
Greatest(dir, k) ==
    {e \in dir : Cardinality({f \in dir : f.name > e.name}) < k}

\* cpnas returned without a failed copy, with "keepold" set
Moved == fp.pc = "done" /\ fp.cpnas = 0 /\ fp.keepold >= 0

\* C27 as stated: an entry of the forcing database present at the start of
\* a forcing-processor run is neither rewritten nor removed in the run.
C27_AsClaimed == Removed = {} /\ Rewritten = {}

\* C27 as amended: amseas rewrites no entry and removes entries only in its
\* closing cpnas call, which with "keepold" >= 0 and no failed copy leaves
\* the "keepold" entries of greatest name, old or new, and nothing else;
\* cmems removes nothing and rewrites the entry of every instant it
\* downloaded.
C27_DatabaseWrites ==
    fp.pc # "off" =>
        /\ fp.src = "amseas" =>
            /\ Rewritten = {}
            /\ Removed # {} => Moved
            /\ Moved =>
                /\ fp.start \subseteq fp.precp
                /\ fp.database = Greatest(fp.precp, fp.keepold)
            /\ ~Moved => fp.start \subseteq fp.database
        /\ fp.src = "cmems" =>
            /\ Removed = {}
            /\ Rewritten =
                IF fp.saved
                THEN {e \in fp.start : fp.d0 <= e.name /\ e.name <= fp.d1}
                ELSE {}

\* amseas ended with one folder kept, the one it added for today, and the
\* two older ones removed after their copy to the external disk
C27_Witness ==
    /\ fp.pc = "done"
    /\ fp.src = "amseas"
    /\ fp.keepold = 1
    /\ fp.ndisk = 1
    /\ fp.cpnas = 0
    /\ Cardinality(Removed) = 2
    /\ fp.database = {[name |-> Today, made |-> "run"]}

\* ------------------------------------------------------------------------
\* Properties of the move to the external disks (ForcOps.cpnas)
\* ------------------------------------------------------------------------

\* cpnas has returned
CpnasReturned == fp.pc = "done" /\ fp.cpnas >= 0

\* the entries cpnas removed from the directory
CpnasRemoved == fp.precp \ fp.database

\* the entries beyond the keep count: those with at least keepold entries
\* of a greater name
BeyondKeep ==
    {e \in fp.precp :
        Cardinality({f \in fp.precp : f.name > e.name}) >= fp.keepold}

OnEachDisk(e) ==
    \A k \in 1..fp.ndisk : [name |-> e.name, disk |-> k] \in fp.copied

IsFolder(e) == DOMAIN e = {"name", "made"}

\* what C39 says of removals in general
C39_Common ==
    /\ CpnasRemoved # {} =>
            \A e \in BeyondKeep : IsFolder(e) => OnEachDisk(e)
    /\ fp.cpnas = 1 => CpnasRemoved = {}
    /\ fp.keepold < 0 => fp.copied = {} /\ CpnasRemoved = {}

\* C39 as stated: cpnas removes an entry only after every folder beyond the
\* keep count was copied to every external disk; if a copy fails nothing is
\* removed, every removed entry has a copy on each external disk, and with
\* a negative keep count nothing is copied or removed.
C39_AsClaimed ==
    CpnasReturned =>
        /\ C39_Common
        /\ \A e \in CpnasRemoved : OnEachDisk(e)

\* C39 as amended: the same, where it is every removed folder that has a
\* copy on each external disk; plain files beyond the keep count are
\* removed without being copied.
C39_RemovedAfterCopies ==
    CpnasReturned =>
        /\ C39_Common
        /\ \A e \in CpnasRemoved : IsFolder(e) => OnEachDisk(e)

\* cpnas removed a folder and a plain file after the copies to two disks
C39_Witness ==
    /\ CpnasReturned
    /\ fp.cpnas = 0
    /\ fp.ndisk = 2
    /\ \E e \in CpnasRemoved : IsFolder(e)
    /\ \E e \in CpnasRemoved : ~IsFolder(e)
    /\ Cardinality(fp.copied) >= 2

\* ------------------------------------------------------------------------
\* Properties of the execution log (logentry)
\* ------------------------------------------------------------------------

\* the entries that end with a newline: the closing entries of sim_manager
\* and the error messages, which are the mailed ones
Closes(e) ==
    \/ e.txt \in {"\n", "[COMPLETED]\n", "post-processing [COMPLETED]\n"}
    \/ \E i \in 1..Len(mails) :
          e.txt = mails[i].body \o "\n"
          \/ (e.txt = mails[i].body /\ e.txt = "[ERROR] MOHID simulation failed\n")

\* the entries of an invocation that starts with an empty or absent log
\* are one line: the header only at the top, then the run time and the
\* date range, and a newline at the end of the last entry and nowhere else
OneLine ==
    LET t == smslog.text
        h == IF Len(t) >= 1 /\ t[1] = Header THEN 1 ELSE 0
    IN  /\ Len(t) >= h + 4
        /\ t[h + 1] = Now
        /\ t[h + 2].txt = "%Y%m%d->"
        /\ t[h + 3].txt = "%Y%m%d;"
        /\ \A i \in (h + 1)..Len(t) : t[i] # Header
        /\ Closes(t[Len(t)])
        /\ \A i \in (h + 1)..(Len(t) - 1) : ~Closes(t[i])

\* sim_manager returned after its stages or its post-processing steps
Returned == pc = "done" /\ chck = 0

\* sim_manager was ended by an exception after chcksim
Raised == pc = "crashed" /\ chck = 0

\* C28 as stated: every invocation that passes chcksim leaves exactly one
\* line in the execution log, starting with the run time and the date range
\* and closed by one newline, whatever the path that ended it.
C28_AsClaimed == (Returned \/ Raised) => OneLine

\* ------------------------------------------------------------------------
\* Properties of the stage loop's files
\* ------------------------------------------------------------------------

\* sim_manager is in its stage loop
InStageLoop == chck = 0 /\ pc \in {"prepsim", "getforc", "getforc_loop", "runsim"}

\* the Model_<runid>.dat files of the stages before the current one
EarlierModelDat == {m \in modeldat : m.runid <= stage}

\* the names of the Model_<runid>.dat files in a set of them
ModelDatNames(files) == {<<m.dom, m.runid>> : m \in files}

\* the stage ended the invocation: prepsim or runsim returned a failure
StageFailed ==
    /\ pc = "done"
    /\ chck = 0
    /\ Len(trace) >= 1
    /\ Last(trace).op \in {"prepsim", "runsim"}
    /\ Last(trace).st >= 1

FinSources ==
    {e.id : e \in {x \in UNION {res[d] : d \in DOMAIN res} : x.kind = "fin"}}

\* C31 as stated: after continuous succeeded with several archive
\* directories configured, the continuation files in the domains' 'res'
\* directories all come from one archive directory.
C31_AsClaimed ==
    (inpts.continuous >= 2 /\ HasCall(Call("continuous", 1, 0)))
        => Cardinality(FinSources) = 1

\* ------------------------------------------------------------------------
\* Properties of the domains' result directories (chcksim)
\* ------------------------------------------------------------------------

\* the 'res' directory of domain d is as it was before the invocation
Untouched(d) == res[d] = {[kind |-> "old", id |-> 0]}

\* C32 as stated: whenever chcksim returns the error status, no domain's
\* 'res' directory has been removed or recreated.
C32_AsClaimed == chck = 1 => \A d \in DOMAIN res : Untouched(d)

\* ------------------------------------------------------------------------
\* Properties of the working directory (extract, gluehdfs, runsim)
\* ------------------------------------------------------------------------

\* C33 as stated: the engine-tool adapters return with the working
\* directory of their entry, on every path, so that the log and the
\* notification after a failure run from the original directory.
C33_AsClaimed == db.cwd = "."

\* ------------------------------------------------------------------------
\* Properties of the forcing files copied (getforc)
\* ------------------------------------------------------------------------

\* the forcing file copied for the j-th pattern in the getforc call of
\* stage k, each call before it having copied one file for each pattern
CopiedFor(k, j) == bc[(k - 1) * Len(inpts.fsrch) + j]

\* the later of two patterns was searched again with an earlier stage end
ShrankLater ==
    \E i \in 1..Len(gf.sel) :
        /\ gf.sel[i].pat = inpts.fsrch[2]
        /\ gf.sel[i].file = NoFile

\* C34: when getforc returns success for a stage, the file it copied for
\* each search pattern covers the stage's final window, from the date of
\* the stage's start to the date of its end as the call left it.
C34_CopiesCoverWindow ==
    \A k \in 1..Len(ini) :
        (HasCall(Call("getforc", k, 0)) /\ inpts.fsrch # <<>>) =>
            \A j \in 1..Len(inpts.fsrch) :
                /\ CopiedFor(k, j).pat = inpts.fsrch[j]
                /\ CopiedFor(k, j).file.dini <= DateOf(ini[k])
                /\ DateOf(fin[k]) <= CopiedFor(k, j).file.dfin

\* a single stage with keep-alive and two patterns: the first was resolved
\* for the planned window, the second only after the stage end was moved
\* back, and getforc returned success
C34_Witness ==
    /\ HasCall(Call("getforc", 1, 0))
    /\ Len(inpts.fsrch) = 2
    /\ gf.alive
    /\ gf.ndec >= 1
    /\ ShrankLater
    /\ Len(bc) = 2
    /\ DateOf(fin[1]) < bc[1].file.dfin
    /\ DateOf(fin[1]) = bc[2].file.dfin

\* ------------------------------------------------------------------------
\* Properties of the COMPLETED notification
\* ------------------------------------------------------------------------

IsCompleted(m) == m.subject = "COMPLETED"

PostSteps == {"database", "hdftonc", "thredds", "cpnas"}

\* every stage of the plan ran and its engine log was classified successful
EveryStageOk ==
    /\ chck = 0
    /\ \A k \in 1..Len(ini) : HasCall(Call("runsim", k, 0))

\* every post-processing step that returned, returned success
EveryPostOk ==
    \A i \in 1..Len(trace) : trace[i].op \in PostSteps => trace[i].st = 0

\* C35: the COMPLETED notification is sent at most once; when sim_manager
\* has ended it was sent exactly when every stage succeeded and every
\* post-processing step attempted returned success; after a failed netCDF
\* conversion the thredds conversion is not run and the external copy is.
C35_CompletedOnce ==
    /\ Count(mails, IsCompleted) <= 1
    /\ pc = "crashed" => Count(mails, IsCompleted) = 0
    /\ pc = "done" =>
        ((Count(mails, IsCompleted) = 1) <=> (EveryStageOk /\ EveryPostOk))
    /\ (pc = "done" /\ HasCall(Call("hdftonc", 0, 1))) =>
        /\ \A i \in 1..Len(trace) : trace[i].op # "thredds"
        /\ \E i \in 1..Len(trace) : trace[i].op = "cpnas"

\* the netCDF conversion failed with the thredds conversion configured: the
\* external copy was made and returned success, and no COMPLETED
\* notification was sent
C35_Witness ==
    /\ pc = "done"
    /\ inpts.thredds
    /\ inpts.extdisk > 0
    /\ EveryStageOk
    /\ HasCall(Call("hdftonc", 0, 1))
    /\ HasCall(Call("cpnas", 0, 0))
    /\ nas.copied # {}
    /\ Count(mails, IsCompleted) = 0

\* ------------------------------------------------------------------------
\* Properties of the classification of the engine log (chklog)
\* ------------------------------------------------------------------------

\* some line of the captured log holds both the word "Program" and the
\* phrase "successfully terminated"
HasBoth(lines) ==
    \E i \in 1..Len(lines) : lines[i].program /\ lines[i].terminated

\* runsim returned st for the stage whose log is the captured one
Classified(st) ==
    /\ mohidlog.runid >= 1
    /\ mohidlog.isfile
    /\ HasCall(Call("runsim", mohidlog.runid, st))

\* C36 as stated: an engine log is classified successful only if one of its
\* lines holds both "Program" and "successfully terminated"; a log with the
\* phrase only on lines without "Program" is classified a failure.
C36_AsClaimed ==
    /\ Classified(0) => HasBoth(mohidlog.lines)
    /\ (mohidlog.runid >= 1 /\ mohidlog.isfile /\ pc # "runsim"
          /\ HasPhrase(mohidlog.lines) /\ ~HasBoth(mohidlog.lines))
        => Classified(1)

\* ------------------------------------------------------------------------
\* Properties of the Mohid class (dev/m_supp_mohid.py)
\* ------------------------------------------------------------------------

\* the runsim calls made on the object
MhCalls == IF mh.pc = "off" THEN <<>> ELSE mh.calls

\* the call ran the engine and the engine's output holds the completion
\* phrase
RanWell(c) == c.engine /\ c.in.islog /\ c.in.phrase

\* the call found the directories, the files of the domains and the engine
Runnable(c) == c.in.match /\ c.in.prep /\ c.in.exe

\* C37 as stated: after runsim returns, goterror is False exactly when the
\* engine ran and its log holds the completion phrase; a call after a
\* successful run invokes the engine (when it finds the files it needs) and
\* a call after a failed run does not.
C37_AsClaimed ==
    \A i \in 1..Len(MhCalls) :
        /\ ~MhCalls[i].goterror <=> RanWell(MhCalls[i])
        /\ i > 1 =>
            /\ (RanWell(MhCalls[i - 1]) /\ Runnable(MhCalls[i]))
                    => MhCalls[i].engine
            /\ ~RanWell(MhCalls[i - 1]) => ~MhCalls[i].engine

\* ------------------------------------------------------------------------
\* Properties of the forcing search (getforc)
\* ------------------------------------------------------------------------

\* the candidates of pattern p whose coverage dates enclose the dates of
\* the window [a, b]
Covering(p, a, b) ==
    {f \in forcfiles[p] : f.dini <= DateOf(a) /\ DateOf(b) <= f.dfin}

\* getforc has finished the search of its first pattern
FirstPatternDone ==
    \/ gf.ipat > 1
    \/ \E i \in 1..Len(trace) : trace[i].op = "getforc"

\* a single-stage plan with keep-alive in which the first pattern has no
\* file for the planned stage nor for the stage shortened by less than k
\* days, and has one for the stage shortened by k days
CoveredAfter(k) ==
    /\ chck = 0
    /\ Len(ini) = 1
    /\ inpts.keepalive
    /\ inpts.fsrch # <<>>
    /\ FirstPatternDone
    /\ \A j \in 0..(k - 1) :
          Covering(inpts.fsrch[1], ini[1], gf.fin0 - Days(j)) = {}
    /\ Covering(inpts.fsrch[1], ini[1], gf.fin0 - Days(k)) # {}

\* what the claim promises for the stage shortened by k days
ShrunkAndSelected(k) ==
    /\ bc # <<>>
    /\ bc[1].file \in Covering(inpts.fsrch[1], ini[1], gf.fin0 - Days(k))
    /\ gf.ipat = 1 => fin = <<gf.fin0 - Days(k)>>
    /\ Len(inpts.fsrch) = 1 => HasCall(Call("getforc", 1, 0))

\* C8, as claimed: the stage end moves back to any window a candidate
\* covers, also to the stage start; the stage [06-10, 06-11] with the only
\* candidate covering [06-09, 06-10] ends at 06-10 with that file selected.
C8_AsClaimed ==
    \A k \in 1..MaxDelta :
        (CoveredAfter(k) /\ ini[1] <= gf.fin0 - Days(k)) => ShrunkAndSelected(k)

\* C8, amended: in a single-stage plan with keep-alive, when no candidate
\* covers the stage's dates and a candidate covers the stage shortened by k
\* whole days with the shortened end still later than the stage start,
\* getforc moves the stage end back by k days, selects a candidate covering
\* that window and, with one search pattern, returns success; when the only
\* covered window ends at the stage start, getforc moves the end back to the
\* start, selects nothing and fails.
C8_ShrinkSelects ==
    \A k \in 1..MaxDelta :
        /\ (CoveredAfter(k) /\ ini[1] < gf.fin0 - Days(k))
              => ShrunkAndSelected(k)
        /\ (CoveredAfter(k) /\ ini[1] = gf.fin0 - Days(k))
              => /\ bc = <<>>
                 /\ fin = ini
                 /\ HasCall(Call("getforc", 1, 1))
                 /\ pc = "done"

\* the stage [06-10, 06-12] with the only candidate covering [06-09, 06-11]
\* ends at 06-11 with that file copied
C8_Witness ==
    /\ inpts.opdate = 10
    /\ inpts.startime = 0
    /\ inpts.forecast = Ints(<<2>>)
    /\ inpts.fsrch = <<"p1">>
    /\ forcfiles["p1"] = {Forc("p1", 9, 11, 1)}
    /\ CoveredAfter(1)
    /\ fin = <<Days(11)>>
    /\ bc = <<[pat |-> "p1", file |-> Forc("p1", 9, 11, 1)]>>
    /\ HasCall(Call("getforc", 1, 0))

\* C11: every call of searchfiles for a stage window and a pattern returns
\* a file only if the file's coverage starts on or before the date of the
\* window's start and ends on or after the date of its end; no covering
\* candidate has a later modification time than the file returned; and no
\* file is returned only when no candidate covers the window.
C11_SearchSelects ==
    \A i \in 1..Len(gf.sel) :
        LET e == gf.sel[i]
            cov == Covering(e.pat, e.ini, e.fin)
        IN  /\ e.file # NoFile =>
                  /\ e.file \in forcfiles[e.pat]
                  /\ e.file.dini <= DateOf(e.ini)
                  /\ e.file.dfin >= DateOf(e.fin)
                  /\ \A g \in cov : g.mtime <= e.file.mtime
            /\ e.file = NoFile => cov = {}

\* a search that returned the newer of two covering files and passed over
\* a still newer file that does not cover the window
C11_Witness ==
    /\ Len(gf.sel) = 1
    /\ gf.sel[1].file # NoFile
    /\ \E g \in Covering("p1", gf.sel[1].ini, gf.sel[1].fin) :
          g.mtime < gf.sel[1].file.mtime
    /\ \E g \in forcfiles["p1"] :
          /\ g \notin Covering("p1", gf.sel[1].ini, gf.sel[1].fin)
          /\ g.mtime > gf.sel[1].file.mtime

\* C12, as claimed: the file a search selects is fixed by the candidate set
\* (names, coverage dates, modification times) and the stage window: a
\* search of the same candidates in any other order glob may list them
\* selects the same file.
C12_AsClaimed ==
    \A i \in 1..Len(gf.sel) :
        \A l \in Perms(forcfiles[gf.sel[i].pat]) :
            SearchFiles(l, gf.sel[i].ini, gf.sel[i].fin) = {gf.sel[i].file}

\* C9: the keep-alive loop ends: within one getforc call the stage end is
\* moved back at most (fin - ini).days times over all patterns, no pattern
\* is searched more often than that, and no stage end is ever earlier than
\* its stage start.
C9_ShrinkBounded ==
    /\ \A i \in 1..Len(fin) : i <= Len(ini) => ini[i] <= fin[i]
    /\ gf.ipat >= 1 =>
        /\ gf.ini <= gf.fin
        /\ gf.fin = gf.fin0 - Days(gf.ndec)
        /\ gf.ndec <= (gf.fin0 - gf.ini) \div 24
        /\ gf.nsrch <= (gf.fin0 - gf.ini) \div 24

C9_Witness ==
    /\ gf.alive
    /\ gf.ipat = 2
    /\ gf.ndec = MaxDelta
    /\ gf.fin = gf.ini
    /\ fin = ini
    /\ pc = "done"

\* the plan allows the keep-alive shrink
MayShrink == inpts.keepalive /\ Len(ini) = 1

\* C10: after planning no stage start changes, and a stage end changes only
\* in getforc with keepalive configured and a single-stage plan; otherwise a
\* pattern without matching file is searched once and getforc fails with
\* the stage boundaries unchanged.
C10_BoundariesFrozen ==
    [][/\ chck = 0 => ini' = ini
       /\ (chck = 0 /\ fin' # fin) =>
             /\ pc = "getforc_loop"
             /\ MayShrink
             /\ Len(fin') = 1
             /\ fin'[1] = fin[1] - Days(1)
       /\ (/\ pc = "getforc_loop"
           /\ ~MayShrink
           /\ ~gf.manbreak
           /\ gf.ini < gf.fin
           /\ Covering(inpts.fsrch[gf.ipat], gf.ini, gf.fin) = {})
          => /\ gf'.nsrch = 1
             /\ gf'.manbreak
             /\ gf'.filein = NoFile
             /\ fin' = fin
       /\ (/\ pc = "getforc_loop"
           /\ ~MayShrink
           /\ gf.manbreak
           /\ gf.filein = NoFile)
          => /\ gf.nsrch = 1
             /\ Last(trace') = Call("prepsim", stage + 1, 1)
             /\ trace'[Len(trace') - 1] = Call("getforc", stage + 1, 1)
             /\ pc' = "done"
             /\ fin' = fin
      ]_vars

C10_Witness ==
    /\ inpts.keepalive
    /\ Len(ini) = 2
    /\ stage = 1
    /\ gf.nsrch = 1
    /\ HasCall(Call("getforc", 2, 1))
    /\ pc = "done"

====
